---- MODULE Spec2Model ----
(***************************************************************************)
(* A model of the GRIB edition 1 / edition 2 codec of rda-dattore/GRIB:    *)
(* the bit-packed octet codec (get_bits, set_bits, setBits), the two       *)
(* decoders (unpackgrib1.c, unpackgrib2.c) and the two converters          *)
(* (grib1to2.c, grib2to1.c).                                               *)
(*                                                                         *)
(* C ints are 32 bits wide; they are kept as TLA+ integers in the range    *)
(* MinInt..MaxInt and every operation that can leave that range wraps      *)
(* (two's complement).  An unsigned char is an integer in 0..255.  A byte  *)
(* buffer is a sequence of unsigned chars; C index k is TLA+ index k+1.    *)
(***************************************************************************)
EXTENDS Integers, Sequences, FiniteSets, TLC

VARIABLES buf, log,
          edition, fp, temp, pc, status, call_pos, is_msg,
          grib_msg, d1_in, d1_pc,
          grib2_msg, heap, grid_num, d2_in, d2_pc,
          enc2, enc1, trip,
          pmap,
          cal,
          bmap,
          flt,
          conv,
          pure,
          cpx,
          walk,
          levels,
          geo,
          rng

bitVars == <<buf, log>>
isVars == <<edition, fp, temp, pc, status, call_pos, is_msg>>
d1Vars == <<grib_msg, d1_in, d1_pc>>
d2Vars == <<grib2_msg, heap, grid_num, d2_in, d2_pc>>
e2Vars == <<enc2>>
e1Vars == <<enc1>>
tripVars == <<trip>>
parVars == <<pmap>>
calVars == <<cal>>
bmapVars == <<bmap>>
fltVars == <<flt>>
convVars == <<conv>>
pureVars == <<pure>>
cpxVars == <<cpx>>
walkVars == <<walk>>
lvlVars == <<levels>>
geoVars == <<geo>>
rngVars == <<rng>>
vars ==
  <<bitVars, isVars, d1Vars, d2Vars, e2Vars, e1Vars, tripVars, parVars,
    calVars, bmapVars, fltVars, convVars, pureVars, cpxVars, walkVars,
    lvlVars, geoVars, rngVars>>
\* the variables each part of the model leaves alone
notBits ==
  <<isVars, d1Vars, d2Vars, e2Vars, e1Vars, tripVars, parVars, calVars,
    bmapVars, fltVars, convVars, pureVars, cpxVars, walkVars, lvlVars,
    geoVars, rngVars>>
notIS ==
  <<bitVars, d1Vars, d2Vars, e2Vars, e1Vars, tripVars, parVars, calVars,
    bmapVars, fltVars, convVars, pureVars, cpxVars, walkVars, lvlVars,
    geoVars, rngVars>>
notD1 ==
  <<bitVars, isVars, d2Vars, e2Vars, e1Vars, tripVars, parVars, calVars,
    bmapVars, fltVars, convVars, pureVars, cpxVars, walkVars, lvlVars,
    geoVars, rngVars>>
notD2 ==
  <<bitVars, isVars, d1Vars, e2Vars, e1Vars, tripVars, parVars, calVars,
    bmapVars, fltVars, convVars, pureVars, cpxVars, walkVars, lvlVars,
    geoVars, rngVars>>
notE2 ==
  <<bitVars, isVars, d1Vars, d2Vars, e1Vars, tripVars, parVars, calVars,
    bmapVars, fltVars, convVars, pureVars, cpxVars, walkVars, lvlVars,
    geoVars, rngVars>>
notE1 ==
  <<bitVars, isVars, d1Vars, d2Vars, e2Vars, tripVars, parVars, calVars,
    bmapVars, fltVars, convVars, pureVars, cpxVars, walkVars, lvlVars,
    geoVars, rngVars>>
notTrip ==
  <<bitVars, isVars, d1Vars, d2Vars, e2Vars, e1Vars, parVars, calVars,
    bmapVars, fltVars, convVars, pureVars, cpxVars, walkVars, lvlVars,
    geoVars, rngVars>>
notPar ==
  <<bitVars, isVars, d1Vars, d2Vars, e2Vars, e1Vars, tripVars, calVars,
    bmapVars, fltVars, convVars, pureVars, cpxVars, walkVars, lvlVars,
    geoVars, rngVars>>
notCal ==
  <<bitVars, isVars, d1Vars, d2Vars, e2Vars, e1Vars, tripVars, parVars,
    bmapVars, fltVars, convVars, pureVars, cpxVars, walkVars, lvlVars,
    geoVars, rngVars>>
notBMS ==
  <<bitVars, isVars, d1Vars, d2Vars, e2Vars, e1Vars, tripVars, parVars,
    calVars, fltVars, convVars, pureVars, cpxVars, walkVars, lvlVars,
    geoVars, rngVars>>
notFlt ==
  <<bitVars, isVars, d1Vars, d2Vars, e2Vars, e1Vars, tripVars, parVars,
    calVars, bmapVars, convVars, pureVars, cpxVars, walkVars, lvlVars,
    geoVars, rngVars>>
notConv ==
  <<bitVars, isVars, d1Vars, d2Vars, e2Vars, e1Vars, tripVars, parVars,
    calVars, bmapVars, fltVars, pureVars, cpxVars, walkVars, lvlVars,
    geoVars, rngVars>>
notPure ==
  <<bitVars, isVars, d1Vars, d2Vars, e2Vars, e1Vars, tripVars, parVars,
    calVars, bmapVars, fltVars, convVars, cpxVars, walkVars, lvlVars,
    geoVars, rngVars>>
notCpx ==
  <<bitVars, isVars, d1Vars, d2Vars, e2Vars, e1Vars, tripVars, parVars,
    calVars, bmapVars, fltVars, convVars, pureVars, walkVars, lvlVars,
    geoVars, rngVars>>
notWalk ==
  <<bitVars, isVars, d1Vars, d2Vars, e2Vars, e1Vars, tripVars, parVars,
    calVars, bmapVars, fltVars, convVars, pureVars, cpxVars, lvlVars,
    geoVars, rngVars>>
notLvl ==
  <<bitVars, isVars, d1Vars, d2Vars, e2Vars, e1Vars, tripVars, parVars,
    calVars, bmapVars, fltVars, convVars, pureVars, cpxVars, walkVars,
    geoVars, rngVars>>
notGeo ==
  <<bitVars, isVars, d1Vars, d2Vars, e2Vars, e1Vars, tripVars, parVars,
    calVars, bmapVars, fltVars, convVars, pureVars, cpxVars, walkVars,
    lvlVars, rngVars>>
notRng ==
  <<bitVars, isVars, d1Vars, d2Vars, e2Vars, e1Vars, tripVars, parVars,
    calVars, bmapVars, fltVars, convVars, pureVars, cpxVars, walkVars,
    lvlVars, geoVars>>

(***************************************************************************)
(* 32-bit integer arithmetic                                               *)
(***************************************************************************)
MaxInt == 2147483647
MinInt == -MaxInt - 1

\* sizeof(int)*8 and sizeof(unsigned char)*8
src_size == 32
buf_size == 8

\* 2^k for a shift count 0..30
Pow2(k) == 2^k

\* x + y in a 32-bit int (wraps)
Add32(x, y) ==
  IF x >= 0 /\ y >= 0
    THEN (IF x > MaxInt - y THEN ((x + MinInt) + y) + MinInt ELSE x + y)
  ELSE IF x < 0 /\ y < 0
    THEN (IF x < MinInt - y THEN ((x - MinInt) + y) - MinInt ELSE x + y)
  ELSE x + y

\* x >> k of a signed int, 0 <= k <= 31 (arithmetic shift)
Sar32(x, k) == IF k = 31 THEN (IF x < 0 THEN -1 ELSE 0) ELSE x \div Pow2(k)

\* x & ~(mask << k) where mask is the all-ones int (smask, lmask): the low k
\* bits of x, 0 <= k <= 31
LowBits(x, k) ==
  IF k = 31 THEN (IF x >= 0 THEN x ELSE (x + MaxInt) + 1)
  ELSE x % Pow2(k)

\* x << k in a 32-bit int, 0 <= k <= 31: the bits shifted out are lost
Shl32(x, k) ==
  IF k = 0 THEN x
  ELSE IF k = 31 THEN (IF x % 2 = 1 THEN MinInt ELSE 0)
  ELSE LET u == LowBits(x, 32 - k)
           half == Pow2(31 - k)
       IN  IF u >= half THEN ((u - half) - half) * Pow2(k)
                        ELSE u * Pow2(k)

\* conversion of an int to unsigned char on assignment
ToUChar(x) == x % 256

\* b & (bmask << k) for an unsigned char b, 0 <= k <= 8
ByteHigh(b, k) == b - (b % Pow2(k))

\* b & ~(bmask << k) for an unsigned char b, 0 <= k <= 8
\* variant of ByteLow that keeps no bit of the byte
ByteLowCleared(b, k) == 0
ByteLow(b, k) == b % Pow2(k)

(***************************************************************************)
(* BitStream: get_bits (unpackgrib1.c, unpackgrib2.c) and set_bits /       *)
(* setBits (grib1to2.c, grib2to1.c)                                        *)
(***************************************************************************)

\* the while loop of get_bits: accumulate whole bytes while rshift < 0;
\* yields <<loc, wskip, rshift>>
RECURSIVE GetBitsLoop(_, _, _, _)
\* variant of GetBitsLoop that adds each whole byte without shifting it
GetBitsLoopUnshifted(b, loc, wskip, rshift) ==
  IF rshift < 0
    THEN GetBitsLoop(b, Add32(loc, b[wskip + 1]), wskip + 1, rshift + buf_size)
    ELSE <<loc, wskip, rshift>>
GetBitsLoop(b, loc, wskip, rshift) ==
  IF rshift < 0
    THEN GetBitsLoop(b, Add32(loc, Shl32(b[wskip + 1], -rshift)),
                     wskip + 1, rshift + buf_size)
    ELSE <<loc, wskip, rshift>>

\* get_bits(buf,&loc,off,bits): the value left in loc (loc is the value it
\* held before the call, which bits = 0 leaves in place)
GetBits(b, loc, off, bits) ==
  IF bits = 0 THEN loc
  ELSE
    LET wskip == off \div buf_size
        rshift == buf_size - (off % buf_size) - bits
        raw ==
          IF rshift < 0
            THEN LET r == GetBitsLoop(b, 0, wskip, rshift)
                 IN  IF r[3] # 0
                       THEN Add32(r[1], ByteLow(b[r[2] + 1] \div Pow2(r[3]),
                                                buf_size - r[3]))
                       ELSE Add32(r[1], b[r[2] + 1])
            ELSE b[wskip + 1] \div Pow2(rshift)
    IN  IF bits # src_size THEN LowBits(raw, bits) ELSE raw

\* the while loop of set_bits: store whole middle bytes while more > 8;
\* yields <<buffer, wskip, more>>
RECURSIVE SetBitsLoop(_, _, _, _)
SetBitsLoop(b, src, wskip, more) ==
  IF more > buf_size
    THEN LET m == more - buf_size
         IN  SetBitsLoop([b EXCEPT ![wskip + 2] =
                             ToUChar(LowBits(Sar32(src, m), src_size - m))],
                         src, wskip + 1, m)
    ELSE <<b, wskip, more>>

\* set_bits(buf,src,off,bits) / setBits(buf,src,off,bits), 0 <= bits <= 32:
\* the buffer after the call
SetBits(b, src, off, bits) ==
  IF bits = 0 THEN b
  ELSE
    LET wskip == off \div buf_size
        bskip == off % buf_size
        lclear == bskip + bits
        rclear == buf_size - bskip
        left == IF rclear # buf_size THEN ByteHigh(b[wskip + 1], rclear) ELSE 0
    IN  IF lclear <= buf_size
          THEN LET right == IF lclear # buf_size
                              THEN ByteLow(b[wskip + 1], buf_size - lclear)
                              ELSE 0
                   fill == ToUChar(IF src_size # bits THEN LowBits(src, bits)
                                                      ELSE src)
               IN  [b EXCEPT ![wskip + 1] =
                      ToUChar(left + right + fill * Pow2(rclear - bits))]
          ELSE LET more == bits - rclear
                   b1 == [b EXCEPT ![wskip + 1] =
                            ToUChar(left + LowBits(Sar32(src, more), bits - more))]
                   r == SetBitsLoop(b1, src, wskip, more)
                   b2 == r[1]
                   w2 == r[2] + 1
                   m2 == buf_size - r[3]
                   right == IF m2 # buf_size THEN ByteLow(b2[w2 + 1], m2) ELSE 0
                   fill == ToUChar(src)
               IN  [b2 EXCEPT ![w2 + 1] = ToUChar(right + fill * Pow2(m2))]

(***************************************************************************)
(* BitStream under test: a buffer, written by a sequence of set_bits calls *)
(* whose bit windows do not overlap                                        *)
(***************************************************************************)

\* largest bit offset a write starts at, and the number of writes in a run
MaxOff == 7
MaxWrites == 2

BufLen == (MaxOff + src_size + 7) \div buf_size

\* the values written into a window of the given width: 0x55555555 cut to
\* the window (0 <= v < 2^bits), and 0xAAAAAAAA whole (a negative int with
\* bits set above the window)
Srcs(bits) == {IF bits < src_size THEN LowBits(1431655765, bits) ELSE 1431655765,
               -1431655766}

\* the first write of a run draws from both values; a later write, next to
\* the windows written before, takes one of them by the parity of its end
SrcsAt(off, bits) ==
  IF log = {} THEN Srcs(bits)
  ELSE IF (off + bits) % 2 = 0
    THEN {IF bits < src_size THEN LowBits(1431655765, bits) ELSE 1431655765}
    ELSE {-1431655766}

\* bit j (0 = first bit of the stream, the most significant bit of byte 0)
BitAt(b, j) == (b[(j \div 8) + 1] \div Pow2(7 - (j % 8))) % 2

Window(w) == w.off .. (w.off + w.bits - 1)

InitBits ==
  /\ buf \in {[i \in 1..BufLen |-> 0], [i \in 1..BufLen |-> 255]}
  /\ log = {}

\* one call set_bits(buf,src,off,bits); log keeps the call and the value
\* v = the low bits of src that the window is expected to hold
set_bits(off, bits, src) ==
  /\ \A w \in log : Window(w) \cap (off .. (off + bits - 1)) = {}
  /\ buf' = SetBits(buf, src, off, bits)
  /\ UNCHANGED notBits
  /\ log' = log \cup {[off |-> off, bits |-> bits, src |-> src,
                       v |-> IF bits = src_size THEN src
                             ELSE LowBits(src, bits)]}

NextBits ==
  /\ Cardinality(log) < MaxWrites
  /\ \E off \in 0..MaxOff, bits \in 0..src_size :
       \E src \in SrcsAt(off, bits) : set_bits(off, bits, src)

IdleBits == buf = <<>> /\ log = {}

\* C1: every logged write reads back: get_bits at the window of a write
\* returns the value written, whatever was written before or after it into
\* the other (non-overlapping) windows
BitStreamRoundTrip ==
  \A w \in log : GetBits(buf, 0, w.off, w.bits) = w.v

\* two writes were made, one of them 32 bits wide and spanning five bytes,
\* and both read back
BitStreamRoundTripWitness ==
  /\ Cardinality(log) = 2
  /\ \E w \in log : w.bits = src_size /\ w.off % 8 # 0 /\ w.v < 0
  /\ \E w \in log : w.bits \in 1..7 /\ w.v > 0
  /\ \A w \in log : GetBits(buf, 0, w.off, w.bits) = w.v

\* C2: a set_bits call changes no bit outside its window (with bits = 0 the
\* window is empty and the buffer is unchanged)
SetBitsFrame ==
  [][\E w \in log' :
       /\ log' = log \cup {w}
       /\ Len(buf') = Len(buf)
       /\ \A j \in 0..(BufLen * 8 - 1) :
            j \notin Window(w) => BitAt(buf', j) = BitAt(buf, j)]_bitVars

\* a negative src, with bits set above the window, was written across a
\* byte boundary into a buffer of one-bits, and the bits around the window
\* are still ones
SetBitsFrameWitness ==
  \E w \in log :
    /\ w.src < 0 /\ w.bits \in 9..31 /\ w.off % 8 # 0 /\ w.src # w.v
    /\ GetBits(buf, 0, w.off, w.bits) = w.v
    /\ \A j \in 0..(BufLen * 8 - 1) : j \notin Window(w) => BitAt(buf, j) = 1

(***************************************************************************)
(* unpack_IS (unpackgrib1.c and unpackgrib2.c): find the next "GRIB" in    *)
(* the input file, read the Indicator Section and then the message         *)
(***************************************************************************)

\* 'G', 'R', 'I', 'B' and a byte that is none of them ('X')
G == 71
R == 82
I == 73
B == 66
X == 88

\* bytes of the Indicator Section: 8 in edition 1, 16 in edition 2
ISLen(ed) == IF ed = 1 THEN 8 ELSE 16

\* no status yet (the call has not returned)
Running == 99

\* fread(&dst[k],1,n,fp): <<dst, file position, number of bytes read>>
Fread(dst, k, n, f) ==
  LET m == IF Len(f.stream) - f.pos < n THEN Len(f.stream) - f.pos ELSE n
  IN  <<[i \in DOMAIN dst |->
           IF i > k /\ i <= k + m THEN f.stream[f.pos + (i - k)] ELSE dst[i]],
        f.pos + m, m>>

IsMagic(t) == t[1] = G /\ t[2] = R /\ t[3] = I /\ t[4] = B

\* a call of unpack_IS begins: fread(temp,1,4,fp)
is_begin ==
  /\ pc = "call"
  /\ LET r == Fread(temp, 0, 4, fp)
     IN  /\ temp' = r[1]
         /\ fp' = [fp EXCEPT !.pos = r[2]]
         /\ call_pos' = fp.pos
         /\ IF r[3] # 4
              THEN /\ status' = (IF r[3] = 0 THEN -1 ELSE 1)
                   /\ pc' = "done"
              ELSE /\ status' = Running
                   /\ pc' = "scan"
  /\ UNCHANGED <<edition, is_msg, notIS>>

\* the bytes kept and the number of bytes to read in one turn of the search
\* loop: <<temp after the shift, index the read starts at, bytes to read>>
Refill(t) ==
  IF t[2] = G THEN <<[t EXCEPT ![1] = t[2], ![2] = t[3], ![3] = t[4]], 3, 1>>
  ELSE IF t[3] = G THEN <<[t EXCEPT ![1] = t[3], ![2] = t[4]], 2, 2>>
  ELSE IF t[4] = G THEN <<[t EXCEPT ![1] = t[4]], 1, 3>>
  ELSE <<t, 0, 4>>

\* one turn of the search loop, taken while temp does not hold "GRIB"
is_scan ==
  /\ pc = "scan"
  /\ ~IsMagic(temp)
  /\ LET s == Refill(temp)
         r == Fread(s[1], s[2], s[3], fp)
     IN  /\ temp' = r[1]
         /\ fp' = [fp EXCEPT !.pos = r[2]]
         /\ IF r[3] = 0
              THEN status' = -1 /\ pc' = "done"
              ELSE status' = Running /\ pc' = "scan"
  /\ UNCHANGED <<edition, call_pos, is_msg, notIS>>

\* total_len as unpack_IS takes it from temp
TotalLen(ed, t) ==
  IF ed = 1
    THEN LET l == GetBits(t, 0, 32, 24) IN IF l = 24 THEN l + 7 ELSE l
    ELSE GetBits(t, 0, 96, 32)

\* temp holds "GRIB": read the rest of the Indicator Section, then the rest
\* of the message into the buffer
is_read ==
  /\ pc = "scan"
  /\ IsMagic(temp)
  /\ LET h == Fread(temp, 4, ISLen(edition) - 4, fp)
     IN  /\ temp' = h[1]
         /\ IF h[3] = 0
              THEN /\ status' = 1
                   /\ fp' = [fp EXCEPT !.pos = h[2]]
                   /\ UNCHANGED is_msg
              ELSE LET total_len == TotalLen(edition, h[1])
                       ed_num == IF edition = 2 THEN GetBits(h[1], 0, 56, 8)
                                 ELSE IF GetBits(h[1], 0, 32, 24) = 24 THEN 0
                                 ELSE 1
                       required_size == total_len + 4
                       cap == IF required_size > is_msg.buffer_capacity
                                THEN required_size ELSE is_msg.buffer_capacity
                       num == total_len - ISLen(edition)
                       left == Len(fp.stream) - h[2]
                       got == IF num < 0 \/ left < num THEN left ELSE num
                   IN  /\ fp' = [fp EXCEPT !.pos = h[2] + got]
                       /\ is_msg' = [total_len |-> total_len, ed_num |-> ed_num,
                                     buffer_capacity |-> cap,
                                     buffer |-> SubSeq(h[1], 1, ISLen(edition))
                                                \o SubSeq(fp.stream, h[2] + 1, h[2] + got)]
                       /\ status' = IF got # num THEN 1 ELSE 0
  /\ pc' = "done"
  /\ UNCHANGED <<edition, call_pos, notIS>>

\* the caller's loop: after a message was read, unpack_IS is called again
is_again ==
  /\ pc = "done"
  /\ status = 0
  /\ pc' = "call"
  /\ status' = Running
  /\ UNCHANGED <<edition, fp, temp, call_pos, is_msg, notIS>>

NextIS == is_begin \/ is_scan \/ is_read \/ is_again

\* longest run of bytes before the tail of the input file
MaxGarbage == 4
RECURSIVE SeqsUpTo(_, _)
SeqsUpTo(S, n) ==
  IF n = 0 THEN {<<>>}
  ELSE LET shorter == SeqsUpTo(S, n - 1)
       IN  shorter \cup {Append(q, x) : q \in shorter, x \in S}

\* a smallest well-formed message: Indicator Section declaring the Indicator
\* Section plus the four bytes of "7777"
Message(ed) ==
  IF ed = 1 THEN <<G, R, I, B, 0, 0, 12, 1, 55, 55, 55, 55>>
  ELSE <<G, R, I, B, 0, 0, 0, 2, 0, 0, 0, 0, 0, 0, 0, 20, 55, 55, 55, 55>>
\* the file ends inside the magic, inside the Indicator Section, inside the
\* body, at the end of the message, or one byte after it
Tails(ed) ==
  {SubSeq(Message(ed), 1, n) :
     n \in {0, 1, 2, 3, 4, 6, ISLen(ed), ISLen(ed) + 2, ISLen(ed) + 4}}
  \cup {Message(ed) \o <<X>>}
Streams(ed) ==
  {g \o t : g \in SeqsUpTo({G, R, I, B, X}, MaxGarbage), t \in Tails(ed)}

\* what the stack holds where temp is allocated: zeros, or bytes that read
\* as a total length of exactly one Indicator Section
UninitTemp ==
  {[i \in 1..16 |-> 0],
   [i \in 1..16 |-> IF i = 8 THEN 8 ELSE IF i = 16 THEN 16 ELSE 0]}

\* initialize(): no buffer yet
InitIS ==
  /\ edition \in {1, 2}
  /\ fp \in {[stream |-> s, pos |-> 0] : s \in Streams(edition)}
  /\ temp \in UninitTemp
  /\ pc = "call"
  /\ status = Running
  /\ call_pos = 0
  /\ is_msg = [total_len |-> 0, ed_num |-> 0, buffer_capacity |-> 0,
               buffer |-> <<>>]
IdleIS ==
  /\ edition = 0
  /\ fp = [stream |-> <<>>, pos |-> 0]
  /\ temp = <<>>
  /\ pc = "idle"
  /\ status = Running
  /\ call_pos = 0
  /\ is_msg = [total_len |-> 0, ed_num |-> 0, buffer_capacity |-> 0,
               buffer |-> <<>>]


(***************************************************************************)
(* Decoder1 (unpackgrib1.c): the Binary Data Section.  A double is modelled *)
(* as the exact rational <<numerator, denominator>> it stands for, in      *)
(* lowest terms with a positive denominator; rounding is not modelled.     *)
(***************************************************************************)

Abs(x) == IF x < 0 THEN -x ELSE x
RECURSIVE GCD(_, _)
GCD(a, b) == IF b = 0 THEN a ELSE GCD(b, a % b)
RatNorm(n, d) ==
  LET g == GCD(Abs(n), Abs(d))
      sg == IF d < 0 THEN -1 ELSE 1
  IN  <<sg * (n \div g), sg * (d \div g)>>
RatMul(a, b) ==
  LET g1 == GCD(Abs(a[1]), b[2])
      g2 == GCD(Abs(b[1]), a[2])
  IN  RatNorm((a[1] \div g1) * (b[1] \div g2), (a[2] \div g2) * (b[2] \div g1))
RatDiv(a, b) == RatMul(a, RatNorm(b[2], b[1]))
RatAdd(a, b) == RatNorm(a[1] * b[2] + b[1] * a[2], a[2] * b[2])
\* pow(base,e) for an integer base
RatPow(base, e) == IF e >= 0 THEN <<base^e, 1>> ELSE <<1, base^(-e)>>

\* GRIB_MISSING_VALUE, 1.e30: no rational of the model equals it
GRIB_MISSING_VALUE == <<1, 1, 30>>

ibm2real(b, off) ==
  LET sign == GetBits(b, 0, off, 1)
      exp == GetBits(b, 0, off + 1, 7) - 64
      fr == GetBits(b, 0, off + 8, 24)
      \* (a zero fraction gives 0 whatever the exponent)
      native_real == IF fr = 0 THEN <<0, 1>>
                     ELSE RatMul(RatMul(<<1, 2^24>>, <<fr, 1>>), RatPow(16, exp))
  IN  IF sign = 1 THEN <<-native_real[1], native_real[2]>> ELSE native_real

\* get_bits of a sign bit and a magnitude of bits bits after it
SignedField(b, off, bits) ==
  IF GetBits(b, 0, off, 1) = 1 THEN -GetBits(b, 0, off + 1, bits)
  ELSE GetBits(b, 0, off + 1, bits)

\* the bitmap loop of unpack_BDS: one bit per entry, up to the capacity
ReadBitmap(b, boff, n) == [i \in 1..n |-> GetBits(b, 0, boff + (i - 1), 1)]
\* the loop that fills packed
ReadPacked(b, off, width, n) ==
  [i \in 1..n |-> GetBits(b, 0, off + (i - 1) * width, width)]

\* the gridpoint loop from point n on, for the message state c (packed is
\* NULL exactly when pack_width is 0): the gridpoints
RECURSIVE GridLoop(_, _, _, _, _)
\* variant of GridLoop that never advances pcnt
GridLoopFirstPacked(c, g, n, bcnt, pcnt) ==
  IF n >= c.num_points THEN g
  ELSE IF c.bitmap_len = 0 \/ (c.bitmap_len > 0 /\ c.bitmap[bcnt + 1] = 1)
    THEN GridLoop(c,
                  Append(g, IF c.pack_width = 0 THEN c.ref_val
                            ELSE RatAdd(c.ref_val,
                                        RatDiv(RatMul(<<c.packed[pcnt + 1], 1>>, c.e),
                                               c.d))),
                  n + 1, IF c.bitmap_len = 0 THEN bcnt ELSE bcnt + 1, pcnt)
    ELSE GridLoop(c, Append(g, GRIB_MISSING_VALUE), n + 1, bcnt + 1, pcnt)
GridLoop(c, g, n, bcnt, pcnt) ==
  IF n >= c.num_points THEN g
  ELSE IF c.bitmap_len = 0 \/ (c.bitmap_len > 0 /\ c.bitmap[bcnt + 1] = 1)
    THEN GridLoop(c,
                  Append(g, IF c.pack_width = 0 THEN c.ref_val
                            ELSE RatAdd(c.ref_val,
                                        RatDiv(RatMul(<<c.packed[pcnt + 1], 1>>, c.e),
                                               c.d))),
                  n + 1,
                  IF c.bitmap_len = 0 THEN bcnt ELSE bcnt + 1,
                  IF c.pack_width = 0 THEN pcnt ELSE pcnt + 1)
    ELSE GridLoop(c, Append(g, GRIB_MISSING_VALUE), n + 1, bcnt + 1, pcnt)

\* grid types whose first packed field is skipped
SkipGrids == {23, 24, 26, 63, 64}

\* unpack_PDS and unpack_GDS, for the fields unpack_BDS reads (edition 1,
\* PDS of 28 bytes); the other fields of the two sections are not modelled
unpack_PDS_GDS(msg) ==
  LET b == msg.buffer
      flag == GetBits(b, 0, 64 + 56, 8)
      gds_included == IF (flag \div 128) % 2 = 1 THEN 1 ELSE 0
      off1 == 64 + 224
      gds_len == IF gds_included = 1 THEN GetBits(b, 0, off1, 24) ELSE msg.gds_len
  IN  [msg EXCEPT
         !.grid_type = GetBits(b, 0, 64 + 48, 8),
         !.gds_included = gds_included,
         !.bms_included = IF (flag \div 64) % 2 = 1 THEN 1 ELSE 0,
         !.D = SignedField(b, 64 + 208, 15),
         !.gds_len = gds_len,
         !.data_rep = IF gds_included = 1 THEN GetBits(b, 0, off1 + 40, 8) ELSE @,
         !.nx = IF gds_included = 1 THEN GetBits(b, 0, off1 + 48, 16) ELSE @,
         !.ny = IF gds_included = 1 THEN GetBits(b, 0, off1 + 64, 16) ELSE @,
         !.offset = IF gds_included = 1 THEN off1 + gds_len * 8 ELSE off1]

\* the bit-map section at bit offset of b as unpack_BDS reads it into a
\* bitmap array of bcapacity entries
UnpackBMS(b, offset, bcapacity) ==
  LET bms_length == GetBits(b, 0, offset, 24)
      ub == GetBits(b, 0, offset + 24, 8)
      bitmap_len == (bms_length - 6) * 8 - ub
      capacity == IF bitmap_len > bcapacity THEN bitmap_len ELSE bcapacity
  IN  [bitmap_len |-> bitmap_len, bcapacity |-> capacity,
       bitmap |-> ReadBitmap(b, offset + 48, capacity),
       offset |-> offset + bms_length * 8]
\* unpack_BDS behind the Bit Map Section, whose bitmap, lengths and end are
\* in bmsec
UnpackData(msg, bmsec) ==
  LET b == msg.buffer
      bitmap_len == bmsec.bitmap_len
      bcapacity == bmsec.bcapacity
      bitmap == bmsec.bitmap
      off2 == bmsec.offset
      bds_len == GetBits(b, 0, off2, 24)
      bds_flag == GetBits(b, 0, off2 + 24, 4)
      ub == GetBits(b, 0, off2 + 28, 4)
      pack_width == GetBits(b, 0, off2 + 80, 8)
      E == SignedField(b, off2 + 32, 15)
      e == RatPow(2, E)
      d == RatPow(10, msg.D)
      ref_val == RatDiv(ibm2real(b, off2 + 48), d)
      num_packed == IF pack_width > 0
                      THEN (bds_len * 8 - 88 - ub) \div pack_width ELSE 0
      off3 == off2 + 88
      off4 == IF msg.data_rep \in {0, 4, 10} /\ msg.grid_type \in SkipGrids
                THEN off3 + pack_width ELSE off3
      packed == ReadPacked(b, off4, pack_width, num_packed)
      num_points == msg.ny * msg.nx
      g == GridLoop([num_points |-> num_points, pack_width |-> pack_width,
                     bitmap_len |-> bitmap_len, bitmap |-> bitmap,
                     packed |-> packed, ref_val |-> ref_val, e |-> e, d |-> d],
                    <<>>, 0, 0, 0)
  IN  [msg EXCEPT
         !.bitmap_len = bitmap_len, !.bcapacity = bcapacity, !.bitmap = bitmap,
         !.bds_len = bds_len, !.bds_flag = bds_flag, !.pack_width = pack_width,
         !.E = E, !.ref_val = ref_val,
         !.offset = off4 + num_packed * pack_width,
         !.gcapacity = IF num_points > @ THEN num_points ELSE @,
         !.gridpoints = g \o SubSeq(@, num_points + 1, Len(@))]
\* unpack_BDS on a message whose data representation unpack_GDS accepted
UnpackBDS(msg) ==
  UnpackData(msg,
             IF msg.bms_included = 1
               THEN UnpackBMS(msg.buffer, msg.offset, msg.bcapacity)
               ELSE [bitmap_len |-> 0, bcapacity |-> msg.bcapacity,
                     bitmap |-> msg.bitmap, offset |-> msg.offset])

\* most points of a grid
MaxPoints == 4

\* write the fields <<bit offset, width, value>> into b, in order
RECURSIVE PutAll(_, _)
PutAll(b, fields) ==
  IF fields = <<>> THEN b
  ELSE IF Len(fields) = 1
    THEN SetBits(b, fields[1][3], fields[1][1], fields[1][2])
  ELSE LET h == Len(fields) \div 2
           b1 == PutAll(b, SubSeq(fields, 1, h))
       IN  IF Len(b1) = Len(b)
             THEN PutAll(b1, SubSeq(fields, h + 1, Len(fields)))
             ELSE b1
RECURSIVE Zeros(_)
Zeros(n) == IF n = 0 THEN <<>> ELSE Append(Zeros(n - 1), 0)
\* n bytes holding the values vs as consecutive fields of width bits
PackFields(vs, width, n) ==
  PutAll(Zeros(n),
         [i \in 1..Len(vs) |-> <<(i - 1) * width, width, vs[i]>>])
\* v as n bytes, most significant first
Bytes(v, n) == [i \in 1..n |-> (v \div Pow2(8 * (n - i))) % 256]
\* sign bit and 15-bit magnitude as two bytes
SignMag16(v) == <<(IF v < 0 THEN 128 ELSE 0) + Abs(v) \div 256, Abs(v) % 256>>

GdsLen(data_rep) == IF data_rep \in {1, 3} THEN 42 ELSE 32
\* the bytes of the edition 1 message m, followed by the four spare bytes of
\* the buffer unpack_IS allocates: Indicator Section, PDS of 28 bytes, GDS,
\* Bit Map Section when m has a bitmap, Binary Data Section, "7777"
Grib1Bytes(m) ==
  LET npts == m.nx * m.ny
      has_bms == m.bitmap # <<>>
      gds_len == GdsLen(m.data_rep)
      bms_len == IF has_bms THEN 6 + (npts + 7) \div 8 ELSE 0
      fields == m.lead \o m.vals
      dlen == (Len(fields) * m.pack_width + 7) \div 8
      bds_len == 11 + dlen
      total == 8 + 28 + gds_len + bms_len + bds_len + 4
  IN  <<G, R, I, B>> \o Bytes(total, 3) \o <<1>>
      \o Bytes(28, 3) \o <<0, 0, 0, m.grid_type,
                           128 + (IF has_bms THEN 64 ELSE 0)>>
      \o Zeros(18) \o SignMag16(m.D)
      \o Bytes(gds_len, 3) \o <<0, 0, m.data_rep>> \o Bytes(m.nx, 2)
      \o Bytes(m.ny, 2) \o Zeros(gds_len - 10)
      \o (IF has_bms
            THEN Bytes(bms_len, 3) \o <<(bms_len - 6) * 8 - npts, 0, 0>>
                 \o PackFields(m.bitmap, 1, bms_len - 6)
            ELSE <<>>)
      \o Bytes(bds_len, 3) \o <<dlen * 8 - Len(fields) * m.pack_width>>
      \o SignMag16(m.E) \o PackFields(<<m.ref.word>>, 32, 4) \o <<m.pack_width>>
      \o PackFields(fields, m.pack_width, dlen)
      \o <<55, 55, 55, 55>> \o Zeros(4)

\* reference values as the IBM word in the message and the number it stands
\* for: 0, 273.14990234375 and -2.5
Refs ==
  {[word |-> 0, value |-> <<0, 1>>],
   [word |-> 1125192294, value |-> <<559411, 2048>>],
   [word |-> -1054343168, value |-> <<-5, 2>>]}
Present(bitmap, npts) ==
  IF bitmap = <<>> THEN npts ELSE Cardinality({i \in 1..npts : bitmap[i] = 1})
\* the messages decoded: every grid of up to MaxPoints points, no bitmap or
\* any bitmap, the data representations unpack_GDS accepts, pack widths
\* 0, 3 and 9, and one packed value for each present point
MessagesOf(sh) ==
  {[nx |-> sh[1], ny |-> sh[2], data_rep |-> gr[1], grid_type |-> gr[2],
    E |-> sc[1], D |-> sc[2], ref |-> ref, pack_width |-> w, bitmap |-> bm,
    lead |-> IF w > 0 /\ gr[1] \in {0, 4, 10} /\ gr[2] \in SkipGrids
               THEN <<seed>> ELSE <<>>,
    vals |-> IF w = 0 THEN <<>>
             ELSE [k \in 1..Present(bm, sh[1] * sh[2]) |->
                     (seed + 5 * k) % Pow2(w)]] :
     gr \in {<<0, 255>>, <<4, 255>>, <<10, 255>>, <<1, 255>>, <<3, 255>>,
             <<5, 255>>, <<0, 23>>, <<5, 23>>},
     sc \in {<<0, 0>>, <<-1, 1>>, <<1, -1>>, <<2, 1>>},
     ref \in Refs, w \in {0, 3, 9}, seed \in {1, 6},
     bm \in {<<>>} \cup [1..(sh[1] * sh[2]) -> {0, 1}]}
Messages(most) ==
  UNION {MessagesOf(sh) :
           sh \in {q \in (1..most) \X (1..most) :
                     q[1] >= q[2] /\ q[1] * q[2] <= most}}

\* initialize(): no buffer, no bitmap, no gridpoints
NoMessage1 ==
  [buffer |-> <<>>, buffer_capacity |-> 0, total_len |-> 0,
   ed_num |-> 0, offset |-> 0, grid_type |-> 0,
   gds_included |-> 0, bms_included |-> 0, D |-> 0, gds_len |-> 0,
   data_rep |-> 0, nx |-> 0, ny |-> 0, bitmap |-> <<>>,
   bcapacity |-> 0, bitmap_len |-> 0, bds_len |-> 0,
   bds_flag |-> 0, pack_width |-> 0, E |-> 0, ref_val |-> <<0, 1>>,
   gridpoints |-> <<>>, gcapacity |-> 0]
InitD1 ==
  /\ grib_msg = NoMessage1
  /\ d1_in = <<>>
  /\ d1_pc = "start"
IdleD1 == grib_msg = <<>> /\ d1_in = <<>> /\ d1_pc = "idle"

\* unpackgrib1 up to the call of unpack_BDS: unpack_IS has read the message m
\* into the buffer, then unpack_PDS and unpack_GDS run
D1Sections(msg, b) ==
  unpack_PDS_GDS([msg EXCEPT
                    !.buffer = b, !.buffer_capacity = Len(b),
                    !.total_len = Len(b) - 4, !.ed_num = 1, !.nx = 0,
                    !.ny = 0])
d1_sections ==
  /\ d1_pc = "start"
  /\ \E m \in Messages(MaxPoints) :
       /\ grib_msg' = D1Sections(grib_msg, Grib1Bytes(m))
       /\ d1_in' = m
  /\ d1_pc' = "sections"
  /\ UNCHANGED notD1

unpack_BDS ==
  /\ d1_pc = "sections"
  /\ grib_msg.data_rep \in {0, 4, 10, 1, 3, 5}
  /\ grib_msg' = UnpackBDS(grib_msg)
  /\ d1_pc' = "done"
  /\ UNCHANGED <<d1_in, notD1>>

NextD1 == d1_sections \/ unpack_BDS


(***************************************************************************)
(* Decoder2 (unpackgrib2.c): the section loop of unpackgrib2 and simple    *)
(* unpacking.  md holds the fields the model follows; the arrays md points *)
(* to live in heap, a sequence of blocks, and a pointer is the index of    *)
(* its block (0 for NULL).  The six arrays of stat_proc are allocated and  *)
(* freed together and are one block of <<proc_code, incr_type, time_unit,  *)
(* time_length, incr_unit, incr_length>> entries.                          *)
(***************************************************************************)

\* the float whose bits are the int w (DRS: get_bits into (int *)&md.R);
\* zero and normal numbers only
Float(w) ==
  LET u == LowBits(w, 31)
      exp == u \div Pow2(23)
      man == u % Pow2(23)
      mag == IF u = 0 THEN <<0, 1>>
             ELSE RatMul(<<Pow2(23) + man, 1>>, RatPow(2, exp - 150))
  IN  IF w < 0 THEN <<-mag[1], mag[2]>> ELSE mag

\* the sections of a GRIB-2 message as bytes
Sec0Bytes(total) == <<G, R, I, B, 0, 0, 0, 2>> \o Bytes(0, 4) \o Bytes(total, 4)
Sec1Bytes == Bytes(21, 4) \o <<1>> \o Zeros(16)
Sec3Bytes(g) ==
  Bytes(72, 4) \o <<3, 0>> \o Bytes(g.nx * g.ny, 4) \o <<0, 0, 0, 0>>
  \o Zeros(16) \o Bytes(g.nx, 4) \o Bytes(g.ny, 4) \o Zeros(34)
RangeBytes(r) ==
  <<r[1], r[2], r[3]>> \o Bytes(r[4], 4) \o <<r[5]>> \o Bytes(r[6], 4)
RECURSIVE Flatten(_)
Flatten(ss) == IF ss = <<>> THEN <<>> ELSE Head(ss) \o Flatten(Tail(ss))
Sec4Bytes(p) ==
  LET ext == IF p.templ = 8
               THEN Zeros(7) \o <<Len(p.ranges)>> \o Zeros(4)
                    \o Flatten([i \in 1..Len(p.ranges) |-> RangeBytes(p.ranges[i])])
               ELSE <<>>
  IN  Bytes(34 + Len(ext), 4) \o <<4, 0, 0>> \o Bytes(p.templ, 2)
      \o <<p.param_cat, p.param_num>> \o Zeros(23) \o ext
Sec5Bytes(d, num_packed) ==
  Bytes(21, 4) \o <<5>> \o Bytes(num_packed, 4) \o <<0, 0>>
  \o PackFields(<<d.ref.word>>, 32, 4) \o SignMag16(d.E) \o SignMag16(d.D)
  \o <<d.pack_width, 0>>
Sec6Bytes(bm) ==
  IF bm.ind = 0
    THEN LET n == (Len(bm.bitmap) + 7) \div 8
         IN  Bytes(6 + n, 4) \o <<6, 0>> \o PackFields(bm.bitmap, 1, n)
    ELSE Bytes(6, 4) \o <<6, bm.ind>>
Sec7Bytes(vals, width) ==
  LET n == (Len(vals) * width + 7) \div 8
  IN  Bytes(5 + n, 4) \o <<7>> \o PackFields(vals, width, n)

\* one field of a message: the sections from number f.from on are in the
\* message, the earlier ones are those of the field before it
FieldBytes(f) ==
  (IF f.from <= 3 THEN Sec3Bytes(f.gds) ELSE <<>>)
  \o (IF f.from <= 4 THEN Sec4Bytes(f.pds) ELSE <<>>)
  \o (IF f.from <= 5 THEN Sec5Bytes(f.drs, Len(f.vals)) ELSE <<>>)
  \o (IF f.from <= 6 THEN Sec6Bytes(f.bms) ELSE <<>>)
  \o Sec7Bytes(f.vals, f.drs.pack_width)
\* the message and the four spare bytes of the buffer
Grib2Bytes(fields) ==
  LET body == Sec1Bytes \o Flatten([i \in 1..Len(fields) |-> FieldBytes(fields[i])])
  IN  Sec0Bytes(16 + Len(body) + 4) \o body \o <<55, 55, 55, 55>> \o Zeros(4)

\* malloc of a block holding data: the allocator hands out a new block or
\* one that was freed; <<heap, pointer>>
Malloc(h, kind, data) ==
  {<<Append(h, [live |-> TRUE, kind |-> kind, data |-> data]), Len(h) + 1>>}
  \cup {<<[h EXCEPT ![q] = [live |-> TRUE, kind |-> kind, data |-> data]], q>> :
          q \in {i \in 1..Len(h) : ~h[i].live}}
Free(h, q) == [h EXCEPT ![q].live = FALSE]

At7777(b, off) ==
  /\ b[off \div 8 + 1] = 55 /\ b[off \div 8 + 2] = 55
  /\ b[off \div 8 + 3] = 55 /\ b[off \div 8 + 4] = 55
\* the first loop of unpackgrib2: the sections numbered 7 from off on
RECURSIVE CountGrids(_, _)
CountGrids(b, off) ==
  IF At7777(b, off) THEN 0
  ELSE (IF GetBits(b, 0, off + 32, 8) = 7 THEN 1 ELSE 0)
       + CountGrids(b, off + GetBits(b, 0, off, 32) * 8)

\* md and a grid before anything is stored in them
NoMd ==
  [gds_templ_num |-> 0, nx |-> 0, ny |-> 0, pds_templ_num |-> 0,
   param_cat |-> 0, param_num |-> 0,
   stat_proc |-> [num_ranges |-> 0, ranges |-> 0],
   drs_templ_num |-> 0, num_packed |-> 0, R |-> <<0, 1>>, E |-> 0, D |-> 0,
   pack_width |-> 0, bitmap |-> 0]
NoGrid == [md |-> NoMd, gridpoints |-> <<>>, gcapacity |-> 0]

\* what the stack holds where unpack_DS declares pval
PvalGarbage == {0, 3}

\* the loop of unpack_DS for template 0 from point n on; pval is the value
\* the variable pval holds before get_bits is called
RECURSIVE DSLoop(_, _, _, _, _)
DSLoop(c, g, n, off, pval) ==
  IF n >= c.num_points THEN g
  ELSE IF c.bitmap = 0 \/ c.bits[n + 1] = 1
    THEN LET pv == GetBits(c.buffer, pval, off, c.pack_width)
         IN  DSLoop(c,
                    Append(g, RatAdd(c.R, RatDiv(RatMul(<<pv, 1>>, c.E), c.D))),
                    n + 1, off + c.pack_width, pv)
    ELSE DSLoop(c, Append(g, GRIB_MISSING_VALUE), n + 1, off, pval)

\* reference values as the IEEE word in the message and the number it
\* stands for: 0, 2.5 and -1.5
Refs2 ==
  {[word |-> 0, value |-> <<0, 1>>],
   [word |-> 1075838976, value |-> <<5, 2>>],
   [word |-> -1077936128, value |-> <<-3, 2>>]}
NoBitmap == [ind |-> 255, bitmap |-> <<>>]
\* product definitions: template 0, and template 8 with one time range
PDSs ==
  {[templ |-> 0, param_cat |-> 0, param_num |-> 0, ranges |-> <<>>],
   [templ |-> 8, param_cat |-> 1, param_num |-> 8,
    ranges |-> <<<<1, 2, 1, 6, 255, 0>>>>],
   [templ |-> 8, param_cat |-> 1, param_num |-> 8,
    ranges |-> <<<<0, 2, 1, 12, 255, 0>>>>]}
DRS2 ==
  {[pack_width |-> 0, ref |-> [word |-> 1075838976, value |-> <<5, 2>>],
    E |-> 0, D |-> 0],
   [pack_width |-> 3, ref |-> [word |-> -1077936128, value |-> <<-3, 2>>],
    E |-> -1, D |-> 1]}
\* a field with one packed value for each present point
MkField(from, gds, pds, drs, bms, seed) ==
  [from |-> from, gds |-> gds, pds |-> pds, drs |-> drs, bms |-> bms,
   vals |-> IF drs.pack_width = 0 THEN <<>>
            ELSE [k \in 1..Present(bms.bitmap, gds.nx * gds.ny) |->
                    (seed + 5 * k) % Pow2(drs.pack_width)]]
\* messages of one field: every grid of up to most points, no bitmap or any
\* bitmap, pack widths 0, 3 and 9
SinglesOf(sh) ==
  {<<MkField(3, [nx |-> sh[1], ny |-> sh[2]],
             [templ |-> 0, param_cat |-> 0, param_num |-> 0, ranges |-> <<>>],
             [pack_width |-> w, ref |-> ref, E |-> sc[1], D |-> sc[2]],
             bms, seed)>> :
     w \in {0, 3, 9}, ref \in Refs2, sc \in {<<0, 0>>, <<-1, 1>>},
     seed \in {1, 6},
     bms \in {NoBitmap}
             \cup {[ind |-> 0, bitmap |-> bm] : bm \in [1..(sh[1] * sh[2]) -> {0, 1}]}}
Singles(most) ==
  UNION {SinglesOf(sh) :
           sh \in {q \in (1..most) \X (1..most) :
                     q[1] >= q[2] /\ q[1] * q[2] <= most}}
\* messages of two and three fields: the later fields repeat the sections
\* from number from on
Firsts ==
  {MkField(3, [nx |-> 2, ny |-> 1], pds, drs, bms, 1) :
     pds \in PDSs, drs \in DRS2,
     bms \in {NoBitmap, [ind |-> 0, bitmap |-> <<1, 0>>]}}
Repeats(f, from) ==
  {MkField(from, gds, pds, drs, bms, 6) :
     gds \in IF from <= 3 THEN {[nx |-> 2, ny |-> 1], [nx |-> 1, ny |-> 1]}
             ELSE {f.gds},
     pds \in IF from <= 4 THEN PDSs ELSE {f.pds},
     drs \in IF from <= 5 THEN DRS2 ELSE {f.drs},
     bms \in IF from <= 6
               THEN {NoBitmap, [ind |-> 0, bitmap |-> <<0, 1>>],
                     [ind |-> 254, bitmap |-> f.bms.bitmap]}
               ELSE {f.bms}}
Pairs ==
  UNION {UNION {{<<f1, f2>> : f2 \in Repeats(f1, from)} : from \in 3..7} :
           f1 \in Firsts}
Triples ==
  UNION {UNION {{<<f1, f2, f3>> : f3 \in Repeats(f2, 4)} :
                  f2 \in Repeats(f1, 4)} :
           f1 \in {f \in Firsts : f.pds.templ = 8 /\ f.bms = NoBitmap}}
Messages2(most) == Singles(most) \cup Pairs \cup Triples

\* initialize(): no buffer, no grids, no stat_proc arrays
NoMessage2 ==
  [buffer |-> <<>>, buffer_capacity |-> 0, offset |-> 0,
   total_len |-> 0, num_grids |-> 0, grids |-> <<>>,
   grid_capacity |-> 0, md |-> NoMd]
InitD2 ==
  /\ grib2_msg = NoMessage2
  /\ heap = <<>>
  /\ grid_num = 0
  /\ d2_in = <<>>
  /\ d2_pc = "start"
IdleD2 ==
  /\ grib2_msg = <<>> /\ heap = <<>> /\ grid_num = 0 /\ d2_in = <<>>
  /\ d2_pc = "idle"

SecLen == GetBits(grib2_msg.buffer, 0, grib2_msg.offset, 32)
SecNum == GetBits(grib2_msg.buffer, 0, grib2_msg.offset + 32, 8)
InLoop(sec_num) ==
  /\ d2_pc = "loop"
  /\ ~At7777(grib2_msg.buffer, grib2_msg.offset)
  /\ SecNum = sec_num

\* unpackgrib2 up to the section loop: unpack_IS has read a message into the
\* buffer; unpack_IDS steps over section 1; the grids are counted and the
\* grid array is allocated
D2Open(msg, b) ==
  LET off == 128 + GetBits(b, 0, 128, 32) * 8
      num_grids == CountGrids(b, off)
      grow == num_grids > msg.grid_capacity
  IN  [msg EXCEPT
         !.buffer = b, !.buffer_capacity = Len(b),
         !.total_len = GetBits(b, 0, 96, 32),
         !.md.nx = 0, !.md.ny = 0,
         !.offset = off,
         !.num_grids = num_grids,
         !.grid_capacity = IF grow THEN num_grids ELSE @,
         !.grids = IF grow THEN [i \in 1..num_grids |-> NoGrid]
                   ELSE @]
d2_open ==
  /\ d2_pc = "start"
  /\ \E fields \in Messages2(MaxPoints) :
       /\ grib2_msg' = D2Open(grib2_msg, Grib2Bytes(fields))
       /\ d2_in' = fields
  /\ grid_num' = 0
  /\ d2_pc' = "loop"
  /\ UNCHANGED <<heap, notD2>>

\* section 3: the templates 0, 40, 10 and 30 hold nx and ny at the same
\* place; any other template is not understood and the program exits
unpack_GDS ==
  /\ InLoop(3)
  /\ LET b == grib2_msg.buffer
         o == grib2_msg.offset
         templ == GetBits(b, 0, o + 96, 16)
     IN  /\ GetBits(b, 0, o + 40, 8) = 0
         /\ GetBits(b, 0, o + 80, 8) = 0
         /\ IF templ \in {0, 40, 10, 30}
              THEN /\ grib2_msg' = [grib2_msg EXCEPT
                                      !.md.gds_templ_num = templ,
                                      !.md.nx = GetBits(b, 0, o + 240, 32),
                                      !.md.ny = GetBits(b, 0, o + 272, 32),
                                      !.offset = o + SecLen * 8]
                   /\ d2_pc' = d2_pc
              ELSE /\ grib2_msg' = [grib2_msg EXCEPT !.md.gds_templ_num = templ]
                   /\ d2_pc' = "exit"
  /\ UNCHANGED <<heap, grid_num, d2_in, notD2>>

\* the entries of the stat_proc arrays of template 8
ReadRanges(b, o, num_ranges) ==
  [n \in 1..num_ranges |->
     LET off == o + 368 + (n - 1) * 96
     IN  <<GetBits(b, 0, off, 8), GetBits(b, 0, off + 8, 8),
           GetBits(b, 0, off + 16, 8), GetBits(b, 0, off + 24, 32),
           GetBits(b, 0, off + 56, 8), GetBits(b, 0, off + 64, 32)>>]
\* section 4, templates 0 and 8
unpack_PDS ==
  /\ InLoop(4)
  /\ LET b == grib2_msg.buffer
         o == grib2_msg.offset
         templ == GetBits(b, 0, o + 56, 16)
         md1 == [grib2_msg.md EXCEPT
                   !.pds_templ_num = templ,
                   !.stat_proc.num_ranges = 0,
                   !.param_cat = GetBits(b, 0, o + 72, 8),
                   !.param_num = GetBits(b, 0, o + 80, 8)]
     IN  /\ GetBits(b, 0, o + 40, 16) = 0
         /\ templ \in {0, 8}
         /\ IF templ = 8
              THEN LET num_ranges == GetBits(b, 0, o + 328, 8)
                       old == grib2_msg.md.stat_proc.ranges
                       h1 == IF old # 0 THEN Free(heap, old) ELSE heap
                   IN  \E r \in Malloc(h1, "ranges", ReadRanges(b, o, num_ranges)) :
                         /\ heap' = r[1]
                         /\ grib2_msg' = [grib2_msg EXCEPT
                                            !.md = [md1 EXCEPT
                                                      !.stat_proc.num_ranges = num_ranges,
                                                      !.stat_proc.ranges = r[2]],
                                            !.offset = o + SecLen * 8]
              ELSE /\ heap' = heap
                   /\ grib2_msg' = [grib2_msg EXCEPT
                                      !.md = md1, !.offset = o + SecLen * 8]
  /\ UNCHANGED <<grid_num, d2_in, d2_pc, notD2>>

\* section 5, template 0
unpack_DRS ==
  /\ InLoop(5)
  /\ LET b == grib2_msg.buffer
         o == grib2_msg.offset
         value == SignedField(b, o + 136, 15)
     IN  /\ GetBits(b, 0, o + 72, 16) = 0
         /\ grib2_msg' = [grib2_msg EXCEPT
                            !.md.num_packed = GetBits(b, 0, o + 40, 32),
                            !.md.drs_templ_num = GetBits(b, 0, o + 72, 16),
                            !.md.R = RatDiv(Float(GetBits(b, 0, o + 88, 32)),
                                            RatPow(10, value)),
                            !.md.E = SignedField(b, o + 120, 15),
                            !.md.D = value,
                            !.md.pack_width = GetBits(b, 0, o + 152, 8),
                            !.offset = o + SecLen * 8]
  /\ UNCHANGED <<heap, grid_num, d2_in, d2_pc, notD2>>

\* section 6: a bitmap in the section, the bitmap as it is, or none
unpack_BMS ==
  /\ InLoop(6)
  /\ LET b == grib2_msg.buffer
         o == grib2_msg.offset
         ind == GetBits(b, 0, o + 40, 8)
     IN  /\ ind \in {0, 254, 255}
         /\ IF ind = 0
              THEN LET len == (GetBits(b, 0, o, 32) - 6) * 8
                   IN  \E r \in Malloc(heap, "bitmap", ReadBitmap(b, o + 48, len)) :
                         /\ heap' = r[1]
                         /\ grib2_msg' = [grib2_msg EXCEPT
                                            !.md.bitmap = r[2],
                                            !.offset = o + SecLen * 8]
              ELSE /\ heap' = heap
                   /\ grib2_msg' = [grib2_msg EXCEPT
                                      !.md.bitmap = IF ind = 255 THEN 0 ELSE @,
                                      !.offset = o + SecLen * 8]
  /\ UNCHANGED <<grid_num, d2_in, d2_pc, notD2>>

\* section 7: md is copied into the grid, then unpack_DS for template 0
unpack_DS ==
  /\ InLoop(7)
  /\ grib2_msg.md.drs_templ_num = 0
  /\ \E garbage \in PvalGarbage :
       LET md == grib2_msg.md
           required_size == md.ny * md.nx
           g == DSLoop([num_points |-> md.ny * md.nx, bitmap |-> md.bitmap,
                        bits |-> IF md.bitmap = 0 THEN <<>> ELSE heap[md.bitmap].data,
                        buffer |-> grib2_msg.buffer, pack_width |-> md.pack_width,
                        R |-> md.R, E |-> RatPow(2, md.E), D |-> RatPow(10, md.D)],
                       <<>>, 0, grib2_msg.offset + 40, garbage)
           old == grib2_msg.grids[grid_num + 1]
       IN  grib2_msg' = [grib2_msg EXCEPT
                           !.grids[grid_num + 1] =
                             [md |-> md,
                              gcapacity |-> IF required_size > old.gcapacity
                                              THEN required_size ELSE old.gcapacity,
                              gridpoints |-> g \o SubSeq(old.gridpoints,
                                                         required_size + 1,
                                                         Len(old.gridpoints))],
                           !.offset = @ + SecLen * 8]
  /\ grid_num' = grid_num + 1
  /\ UNCHANGED <<heap, d2_in, d2_pc, notD2>>

\* the loop ends at "7777": unpackgrib2 returns 0
d2_return ==
  /\ d2_pc = "loop"
  /\ At7777(grib2_msg.buffer, grib2_msg.offset)
  /\ d2_pc' = "done"
  /\ UNCHANGED <<grib2_msg, heap, grid_num, d2_in, notD2>>

NextD2 ==
  \/ d2_open
  \/ unpack_GDS
  \/ unpack_PDS
  \/ unpack_DRS
  \/ unpack_BMS
  \/ unpack_DS
  \/ d2_return

(***************************************************************************)
(* Encoder2: main of grib1to2.c turns the GRIBMessage that unpackgrib1     *)
(* filled into one GRIB-2 message.  The grid is at the origin with zero    *)
(* increments (slat = slon = elat = elon = loinc = lainc = xlen = ylen =   *)
(* olon = std_lat1 = 0, rescomp = scan_mode = proj = 0).                   *)
(***************************************************************************)

\* lround of a rational: halves go away from zero
LRound(q) ==
  IF q[1] >= 0 THEN (2 * q[1] + q[2]) \div (2 * q[2])
  ELSE -((2 * (-q[1]) + q[2]) \div (2 * q[2]))
RECURSIVE Log2(_)
Log2(d) == IF d <= 1 THEN 0 ELSE 1 + Log2(d \div 2)
RECURSIVE FloatNorm(_, _)
\* n * 2^(-k) with n brought into 2^23 .. 2^24 - 1
FloatNorm(n, k) ==
  IF n < Pow2(23) THEN FloatNorm(2 * n, k + 1)
  ELSE IF n >= Pow2(24) THEN FloatNorm(n \div 2, k - 1)
  ELSE <<n, k>>
\* the int that shares its bytes with the float q (union u of pack_DRS), for
\* q a normal float with a power of two as denominator
FloatWord(q) ==
  IF q[1] = 0 THEN 0
  ELSE LET r == FloatNorm(Abs(q[1]), Log2(q[2]))
           mag == (150 - r[2]) * Pow2(23) + (r[1] - Pow2(23))
       IN  IF q[1] < 0 THEN mag + MinInt ELSE mag

mdays == <<31, 28, 31, 30, 31, 30, 31, 31, 30, 31, 30, 31>>
Leap(yr) == yr % 4 = 0 /\ (yr % 100 # 0 \/ yr % 400 = 0)
\* mdays[2] as add_time sets it for the year yr, in the table t
SetFebruary(t, yr) == [t EXCEPT ![2] = IF Leap(yr) THEN 29 ELSE 28]
RECURSIVE DayLoop(_, _, _, _)
\* variant of DayLoop that leaves mdays[2] as it is when the year changes
DayLoopSameYear(yr, mo, dy, t) ==
  IF dy > t[mo]
    THEN IF mo + 1 > 12 THEN DayLoop(yr + 1, 1, dy - t[mo], t)
         ELSE DayLoop(yr, mo + 1, dy - t[mo], t)
    ELSE <<yr, mo, dy, t>>
\* the while loop of add_time over the table t (t[m] is mdays[m]):
\* <<yr, mo, dy, mdays>>
DayLoop(yr, mo, dy, t) ==
  IF dy > t[mo]
    THEN IF mo + 1 > 12
           THEN DayLoop(yr + 1, 1, dy - t[mo], SetFebruary(t, yr + 1))
           ELSE DayLoop(yr, mo + 1, dy - t[mo], t)
    ELSE <<yr, mo, dy, t>>
\* add_time for time_units 0, 1, 2, called with the global table mdays
\* holding t: what it leaves in *yr, *mo, *dy, *time and in mdays
AddTime(t, time_to_add, time_units, yr, mo, dy, time) ==
  LET min == (time % 100) + time_to_add * (CASE time_units = 0 -> 1
                                             [] time_units = 1 -> 60
                                             [] OTHER -> 1440)
      hr == IF min >= 60 THEN time \div 100 + min \div 60 ELSE time \div 100
      min2 == IF min >= 60 THEN min % 60 ELSE min
      date == IF min >= 60 /\ hr >= 24
                THEN DayLoop(yr, mo, dy + hr \div 24, SetFebruary(t, yr))
              ELSE <<yr, mo, dy, t>>
      hr2 == IF min >= 60 /\ hr >= 24 THEN hr % 24 ELSE hr
  IN  [yr |-> date[1], mo |-> date[2], dy |-> date[3],
       time |-> hr2 * 100 + min2, mdays |-> date[4]]
\* add_time as the first call of a run makes it: <<yr, mo, dy, time>>
add_time(time_to_add, time_units, yr, mo, dy, time) ==
  LET r == AddTime(mdays, time_to_add, time_units, yr, mo, dy, time)
  IN  <<r.yr, r.mo, r.dy, r.time>>

\* The cases of map_GRIB1_parameter_into_GRIB2 in source order, one row for
\* each assignment of a case: <<param, center_id, table_ver, discipline,
\* parameter_category, parameter_number>>, with -1 for a field of grib_msg
\* the branch does not test.  A branch is taken when no earlier branch of
\* its case was.
GRIB1ParameterCases ==
  <<
     <<1, 98, 228, 0, 7, 7>>, <<1, -1, -1, 0, 3, 0>>, <<2, -1, -1, 0, 3, 1>>,
     <<3, 98, 228, 10, 0, 17>>, <<3, -1, -1, 0, 3, 2>>, <<4, -1, -1, 0, 2, 14>>,
     <<5, -1, -1, 0, 3, 3>>, <<6, -1, -1, 0, 3, 4>>, <<7, -1, -1, 0, 3, 5>>,
     <<8, 78, 174, 2, 0, 34>>, <<8, -1, -1, 0, 3, 6>>, <<9, -1, -1, 0, 3, 7>>,
     <<10, 98, 200, 0, 14, 2>>, <<10, -1, -1, 0, 14, 0>>, <<11, -1, -1, 0, 0, 0>>,
     <<12, -1, -1, 0, 0, 1>>, <<13, -1, -1, 0, 0, 2>>, <<14, -1, -1, 0, 0, 3>>,
     <<15, -1, -1, 0, 0, 4>>, <<16, -1, -1, 0, 0, 5>>, <<17, -1, -1, 0, 0, 6>>,
     <<18, -1, -1, 0, 0, 7>>, <<19, -1, -1, 0, 0, 8>>, <<20, -1, -1, 0, 19, 0>>,
     <<21, 98, 128, 0, 0, 28>>, <<21, -1, -1, 0, 15, 6>>, <<22, 98, 128, 0, 3, 31>>,
     <<22, -1, -1, 0, 15, 7>>, <<23, 98, 128, 0, 2, 45>>, <<23, -1, -1, 0, 15, 8>>,
     <<24, -1, -1, 0, 7, 0>>, <<25, -1, -1, 0, 0, 9>>, <<26, -1, -1, 0, 3, 8>>,
     <<27, -1, -1, 0, 3, 9>>, <<28, -1, -1, 10, 0, 0>>, <<29, -1, -1, 10, 0, 1>>,
     <<30, 98, 203, 0, 7, 8>>, <<30, -1, -1, 10, 0, 2>>, <<31, -1, -1, 0, 2, 0>>,
     <<32, -1, -1, 0, 2, 1>>, <<33, 98, 201, 0, 1, 82>>, <<33, 98, 203, 0, 2, 46>>,
     <<33, 98, -1, 255, 255, 255>>, <<33, -1, -1, 0, 2, 2>>, <<34, -1, -1, 0, 2, 3>>,
     <<35, -1, -1, 0, 2, 4>>, <<36, -1, -1, 0, 2, 5>>, <<37, -1, -1, 0, 2, 6>>,
     <<38, -1, -1, 0, 2, 7>>, <<39, -1, -1, 0, 2, 8>>, <<40, -1, -1, 0, 2, 9>>,
     <<41, 98, 201, 0, 1, 78>>, <<41, -1, -1, 0, 2, 10>>, <<42, -1, -1, 0, 2, 11>>,
     <<43, -1, -1, 0, 2, 12>>, <<44, -1, -1, 0, 2, 13>>, <<45, -1, -1, 0, 2, 15>>,
     <<46, 98, 202, 0, 3, 20>>, <<46, -1, -1, 0, 2, 16>>, <<47, 98, 202, 0, 3, 24>>,
     <<47, -1, -1, 10, 1, 0>>, <<48, 98, 202, 0, 3, 21>>, <<48, -1, -1, 10, 1, 1>>,
     <<49, 98, 202, 0, 3, 22>>, <<49, -1, -1, 10, 1, 2>>, <<50, -1, -1, 10, 1, 3>>,
     <<51, -1, -1, 0, 1, 0>>, <<52, -1, -1, 0, 1, 1>>, <<53, -1, -1, 0, 1, 2>>,
     <<54, 98, 2, 0, 1, 64>>, <<54, -1, -1, 0, 1, 3>>, <<55, -1, -1, 0, 1, 4>>,
     <<56, -1, -1, 0, 1, 5>>, <<57, -1, -1, 0, 1, 6>>, <<58, 98, 2, 0, 1, 70>>,
     <<58, -1, -1, 0, 6, 0>>, <<59, 98, 128, 0, 7, 6>>, <<59, -1, -1, 0, 1, 7>>,
     <<60, -1, -1, 0, 19, 2>>, <<61, 98, 202, 2, 0, 28>>, <<61, -1, -1, 0, 1, 8>>,
     <<62, 98, 202, 2, 0, 32>>, <<62, -1, -1, 0, 1, 9>>, <<63, -1, -1, 0, 1, 10>>,
     <<64, -1, -1, 0, 1, 12>>, <<65, -1, -1, 0, 1, 13>>, <<66, -1, -1, 0, 1, 11>>,
     <<67, -1, -1, 0, 19, 3>>, <<68, 98, 201, 0, 6, 26>>, <<68, -1, -1, 10, 4, 2>>,
     <<69, 98, 201, 0, 6, 27>>, <<69, -1, -1, 10, 4, 0>>, <<70, -1, -1, 10, 4, 1>>,
     <<71, -1, -1, 0, 6, 1>>, <<72, -1, -1, 0, 6, 2>>, <<73, -1, -1, 0, 6, 3>>,
     <<74, -1, -1, 0, 6, 4>>, <<75, 98, 128, 0, 1, 85>>, <<75, 98, 202, 2, 0, 29>>,
     <<75, 98, -1, 255, 255, 255>>, <<75, -1, -1, 0, 6, 5>>, <<76, 98, 2, 0, 1, 69>>,
     <<76, 98, 128, 0, 1, 86>>, <<76, 98, 202, 2, 0, 30>>, <<76, 98, -1, 255, 255, 255>>,
     <<76, -1, -1, 0, 6, 6>>, <<77, 98, 128, 0, 2, 32>>, <<77, -1, -1, 0, 7, 1>>,
     <<78, 98, 202, 2, 0, 31>>, <<78, -1, -1, 0, 1, 14>>, <<79, -1, -1, 0, 1, 15>>,
     <<80, -1, -1, 10, 3, 0>>, <<81, -1, -1, 1, 2, 8>>, <<82, -1, -1, 10, 3, 1>>,
     <<83, -1, -1, 2, 0, 1>>, <<84, -1, -1, 0, 19, 1>>, <<85, -1, -1, 2, 0, 2>>,
     <<86, -1, -1, 2, 0, 3>>, <<87, -1, -1, 2, 0, 4>>, <<88, -1, -1, 10, 4, 3>>,
     <<89, -1, -1, 0, 3, 10>>, <<90, -1, -1, 2, 0, 5>>, <<91, -1, -1, 1, 2, 7>>,
     <<92, -1, -1, 10, 2, 1>>, <<93, -1, -1, 10, 2, 2>>, <<94, -1, -1, 10, 2, 3>>,
     <<95, -1, -1, 10, 2, 4>>, <<96, -1, -1, 10, 2, 5>>, <<97, -1, -1, 10, 2, 6>>,
     <<98, -1, -1, 10, 2, 7>>, <<99, 98, 203, 0, 19, 25>>, <<99, -1, -1, 0, 1, 16>>,
     <<100, 98, 201, 0, 1, 77>>, <<100, -1, -1, 10, 0, 3>>, <<101, -1, -1, 10, 0, 4>>,
     <<102, -1, -1, 10, 0, 5>>, <<103, -1, -1, 10, 0, 6>>, <<104, -1, -1, 10, 0, 7>>,
     <<105, -1, -1, 10, 0, 8>>, <<106, -1, -1, 10, 0, 9>>, <<107, -1, -1, 10, 0, 10>>,
     <<108, -1, -1, 10, 0, 11>>, <<109, 98, 162, 0, 0, 20>>, <<109, 98, 228, 0, 6, 13>>,
     <<109, 98, -1, 255, 255, 255>>, <<109, -1, -1, 10, 0, 12>>, <<110, -1, -1, 10, 0, 13>>,
     <<111, 98, 201, 0, 1, 76>>, <<111, -1, -1, 0, 4, 0>>, <<112, 98, 201, 0, 1, 55>>,
     <<112, -1, -1, 0, 5, 0>>, <<113, -1, -1, 0, 4, 1>>, <<114, -1, -1, 0, 5, 1>>,
     <<115, -1, -1, 0, 5, 2>>, <<116, -1, -1, 0, 4, 2>>, <<117, -1, -1, 0, 4, 3>>,
     <<118, -1, -1, 0, 4, 4>>, <<119, -1, -1, 0, 4, 5>>, <<120, -1, -1, 0, 4, 6>>,
     <<121, 98, 228, 0, 7, 2>>, <<121, -1, -1, 0, 0, 10>>, <<122, -1, -1, 0, 0, 11>>,
     <<123, 98, 228, 0, 7, 4>>, <<123, -1, -1, 0, 2, 20>>, <<124, -1, -1, 0, 2, 17>>,
     <<125, -1, -1, 0, 2, 18>>, <<126, -1, -1, 0, 2, 19>>, <<131, 7, 2, 0, 1, 70>>,
     <<131, 7, 129, 0, 1, 43>>, <<131, 7, -1, 255, 255, 255>>, <<132, 7, 2, 0, 7, 11>>,
     <<132, 7, 129, 0, 6, 21>>, <<132, 7, -1, 255, 255, 255>>, <<133, 7, 2, 0, 7, 2>>,
     <<133, 7, 129, 0, 1, 44>>, <<133, 7, -1, 255, 255, 255>>, <<133, 98, 201, 0, 1, 61>>,
     <<134, 7, 2, 0, 7, 5>>, <<134, 7, 129, 0, 6, 16>>, <<134, 7, -1, 255, 255, 255>>,
     <<135, 7, 2, 0, 1, 38>>, <<135, 7, 129, 0, 1, 21>>, <<135, 7, -1, 255, 255, 255>>,
     <<136, 7, 2, 0, 2, 25>>, <<136, 7, 129, 0, 1, 69>>, <<136, 7, -1, 255, 255, 255>>,
     <<137, 7, 129, 0, 1, 70>>, <<137, 7, 131, 0, 17, 0>>, <<137, 7, -1, 255, 255, 255>>,
     <<138, 7, 129, 0, 1, 45>>, <<139, 7, 129, 0, 1, 46>>, <<140, 7, 2, 0, 1, 33>>,
     <<140, 7, 129, 0, 6, 20>>, <<140, 7, -1, 255, 255, 255>>, <<140, 98, 203, 0, 7, 3>>,
     <<141, 7, 2, 0, 1, 34>>, <<142, 7, 2, 0, 1, 35>>, <<143, 7, 2, 0, 1, 36>>,
     <<144, 7, 2, 2, 0, 9>>, <<144, 7, 128, 10, 3, 2>>, <<144, 7, -1, 255, 255, 255>>,
     <<145, 7, 131, 0, 1, 41>>, <<146, 7, 2, 0, 6, 15>>, <<146, 98, 200, 0, 6, 15>>,
     <<147, 7, 2, 0, 3, 16>>, <<147, 98, 201, 0, 19, 24>>, <<147, 98, 254, 0, 2, 27>>,
     <<147, 98, -1, 255, 255, 255>>, <<148, 7, 2, 0, 3, 17>>, <<148, 98, 254, 0, 2, 28>>,
     <<152, 98, 201, 0, 19, 11>>, <<153, 7, 2, 0, 1, 22>>, <<153, 98, 201, 0, 2, 31>>,
     <<154, 7, 2, 0, 14, 1>>, <<155, 7, 2, 2, 0, 10>>, <<155, 98, 200, 2, 0, 10>>,
     <<156, 7, 2, 0, 7, 7>>, <<157, 7, 2, 0, 7, 6>>, <<158, 7, 2, 0, 19, 11>>,
     <<159, 7, 130, 0, 19, 17>>, <<160, 7, 2, 0, 4, 53>>, <<160, 7, 130, 2, 3, 5>>,
     <<160, 7, -1, 255, 255, 255>>, <<163, 7, 2, 0, 5, 8>>, <<170, 7, 2, 0, 1, 24>>,
     <<170, 7, 130, 0, 19, 18>>, <<170, 7, -1, 255, 255, 255>>, <<171, 7, 2, 0, 1, 25>>,
     <<171, 7, 130, 2, 3, 6>>, <<171, 7, -1, 255, 255, 255>>, <<171, 98, 201, 0, 0, 19>>,
     <<171, 98, 228, 2, 0, 26>>, <<171, 98, -1, 255, 255, 255>>, <<172, 7, 2, 0, 2, 26>>,
     <<174, 7, 140, 0, 6, 25>>, <<178, 7, 2, 0, 1, 23>>, <<180, 7, 130, 0, 1, 17>>,
     <<180, 98, 128, 0, 2, 38>>, <<180, 98, 202, 0, 14, 1>>, <<180, 98, -1, 255, 255, 255>>,
     <<181, 7, 130, 2, 0, 15>>, <<181, 98, 128, 0, 2, 37>>, <<182, 7, 130, 2, 0, 28>>,
     <<184, 7, 130, 0, 19, 19>>, <<189, 7, 2, 0, 0, 15>>, <<190, 7, 2, 0, 7, 8>>,
     <<191, 7, 133, 0, 6, 33>>, <<192, 7, 133, 10, 191, 1>>, <<193, 7, 131, 0, 0, 21>>,
     <<194, 7, 2, 0, 1, 39>>, <<195, 7, 128, 10, 4, 4>>, <<196, 7, 2, 0, 2, 27>>,
     <<196, 7, 128, 10, 4, 5>>, <<196, 7, 130, 2, 0, 7>>, <<196, 7, -1, 255, 255, 255>>,
     <<197, 7, 2, 0, 2, 28>>, <<197, 7, 128, 10, 4, 6>>, <<197, 7, -1, 255, 255, 255>>,
     <<200, 98, 201, 2, 0, 13>>, <<202, 98, 133, 0, 3, 27>>, <<202, 98, 200, 2, 0, 6>>,
     <<202, 98, -1, 255, 255, 255>>, <<203, 7, 130, 2, 0, 16>>, <<203, 98, 201, 0, 0, 18>>,
     <<204, 7, 2, 0, 4, 7>>, <<204, 98, 200, 0, 4, 7>>, <<205, 7, 2, 0, 5, 3>>,
     <<205, 98, 200, 0, 5, 3>>, <<206, 7, 130, 0, 15, 3>>, <<207, 7, 2, 2, 0, 11>>,
     <<208, 7, 2, 2, 0, 12>>, <<209, 7, 133, 0, 3, 28>>, <<211, 7, 2, 0, 4, 8>>,
     <<211, 98, 200, 0, 4, 8>>, <<212, 7, 2, 0, 5, 4>>, <<212, 98, 200, 0, 5, 4>>,
     <<212, 98, 201, 2, 0, 16>>, <<212, 98, -1, 255, 255, 255>>, <<214, 7, 2, 0, 1, 37>>,
     <<218, 7, 129, 0, 1, 27>>, <<219, 7, 129, 0, 6, 13>>, <<219, 7, 130, 2, 0, 17>>,
     <<219, 7, -1, 255, 255, 255>>, <<219, 98, 200, 0, 2, 21>>, <<221, 7, 2, 0, 3, 18>>,
     <<222, 7, 2, 0, 3, 15>>, <<223, 7, 2, 2, 0, 13>>, <<223, 7, 129, 0, 1, 65>>,
     <<223, 7, -1, 255, 255, 255>>, <<224, 7, 2, 2, 3, 0>>, <<224, 7, 129, 0, 1, 66>>,
     <<224, 7, -1, 255, 255, 255>>, <<225, 7, 129, 0, 1, 67>>, <<226, 7, 2, 2, 0, 14>>,
     <<226, 7, 129, 0, 1, 68>>, <<226, 7, -1, 255, 255, 255>>, <<227, 7, 129, 0, 7, 15>>,
     <<228, 7, 2, 0, 1, 40>>, <<229, 7, 2, 0, 0, 16>>, <<230, 7, 2, 0, 3, 19>>,
     <<230, 7, 130, 2, 3, 7>>, <<230, 7, -1, 255, 255, 255>>, <<230, 98, 201, 0, 15, 1>>,
     <<231, 7, 130, 2, 3, 8>>, <<233, 98, 140, 10, 0, 16>>, <<234, 7, 2, 1, 0, 5>>,
     <<235, 7, 2, 1, 0, 6>>, <<235, 98, 128, 0, 0, 17>>, <<238, 7, 2, 0, 1, 42>>,
     <<239, 7, 2, 0, 0, 18>>, <<240, 7, 129, 0, 16, 3>>, <<240, 7, 130, 2, 3, 9>>,
     <<240, 7, -1, 255, 255, 255>>, <<246, 7, 130, 2, 0, 18>>, <<246, 98, 128, 0, 1, 83>>,
     <<247, 7, 130, 2, 0, 19>>, <<247, 98, 128, 0, 1, 84>>, <<248, 7, 130, 2, 0, 20>>,
     <<248, 98, 128, 0, 6, 32>>, <<249, 7, 130, 2, 0, 21>>, <<250, 7, 129, 2, 4, 2>>,
     <<252, 7, 2, 0, 2, 29>>, <<253, 7, 2, 0, 2, 30>>, <<253, 98, 140, 10, 0, 44>>,
     <<254, 7, 2, 0, 7, 12>>
  >>
\* map_GRIB1_parameter_into_GRIB2: <<discipline, category, number>>, which
\* stay 255 when no branch of the case of param assigns them
map_GRIB1_parameter_into_GRIB2(center_id, table_ver, param) ==
  LET hits == {i \in DOMAIN GRIB1ParameterCases :
                 /\ GRIB1ParameterCases[i][1] = param
                 /\ GRIB1ParameterCases[i][2] \in {-1, center_id}
                 /\ GRIB1ParameterCases[i][3] \in {-1, table_ver}}
  IN  IF hits = {} THEN <<255, 255, 255>>
      ELSE LET c == GRIB1ParameterCases[CHOOSE i \in hits :
                                          \A j \in hits : i <= j]
           IN  <<c[4], c[5], c[6]>>

RECURSIVE Filled(_, _)
\* n bytes as malloc returns them, all holding v
Filled(n, v) ==
  IF n = 0 THEN <<>>
  ELSE IF n = 1 THEN <<v>>
  ELSE Filled(n \div 2, v) \o Filled(n - n \div 2, v)
\* what the bytes of a fresh malloc hold
E2Fill == {0, 255}
\* zero bytes written at the byte offsets from .. to - 1 of a section
ZeroBytes(offset, from, to) ==
  [i \in 1..(to - from) |-> <<offset + (from + i - 1) * 8, 8, 0>>]

\* the GRIBMessage of a grid g at level lev, as unpackgrib1 leaves it: point
\* i is missing or (ref + X*2^E)/10^D with X = (1 + 5*i) mod 2^pack_width
E2Msg(g, data_rep, t_range, param, lev) ==
  LET E == IF g.ny = 3 THEN -1 ELSE 0
      D == IF g.ny = 3 THEN 1 ELSE 0
      ref == IF g.pack_width = 3 THEN <<-4, 1>> ELSE <<5, 2>>
  IN  [data_rep |-> data_rep, t_range |-> t_range, param |-> param,
       level_type |-> lev[1], lvl1 |-> lev[2], lvl2 |-> lev[3],
       nx |-> g.nx, ny |-> g.ny,
       bms_included |-> IF g.bitmap # <<>> THEN 1 ELSE 0,
       bitmap_len |-> Len(g.bitmap), bitmap |-> g.bitmap,
       pack_width |-> g.pack_width, E |-> E, D |-> D,
       ref_val |-> RatDiv(ref, RatPow(10, D)),
       gridpoints |->
         [i \in 1..(g.nx * g.ny) |->
            IF g.bitmap # <<>> /\ g.bitmap[i] = 0 THEN GRIB_MISSING_VALUE
            ELSE RatDiv(RatAdd(ref, RatMul(<<(1 + 5 * i) % Pow2(g.pack_width), 1>>,
                                         RatPow(2, E))),
                        RatPow(10, D))],
       center_id |-> 7, sub_center_id |-> 0, gen_proc |-> 96,
       table_ver |-> 3,
       yr |-> 2020, mo |-> 2, dy |-> 28, time |-> 1830,
       fcst_units |-> 1, p1 |-> 3, p2 |-> 6]
\* level types with one 16-bit value (unpack_PDS of unpackgrib1.c)
OneValueLevels == {100, 103, 105, 107, 109, 111, 113, 115, 125, 160, 200, 201}
\* the level types of the switch of pack_PDS, and three it has no case for
LevelTypes == (100..117) \cup {119, 120, 121, 125, 128, 141} \cup {1, 20, 160}
E2Levels ==
  {<<t, v, 0>> : t \in LevelTypes \cap OneValueLevels, v \in {0, 850, 65535}}
  \cup {<<t, v[1], v[2]>> : t \in LevelTypes \ OneValueLevels,
                            v \in {<<0, 0>>, <<10, 20>>, <<255, 255>>}}
E2Grids(shapes) ==
  UNION {{[nx |-> sh[1], ny |-> sh[2], bitmap |-> bm, pack_width |-> w] :
            bm \in {<<>>, [i \in 1..(sh[1] * sh[2]) |-> i % 2]},
            w \in {0, 3, 9}} : sh \in shapes}
E2Shapes == {<<1, 1>>, <<2, 1>>, <<3, 3>>}
\* the messages converted: every grid on every data representation, time
\* range and parameter at level 850 hPa, and one grid at every level
E2Messages(shapes) ==
  {E2Msg(g, data_rep, t_range, param, <<100, 850, 0>>) :
     g \in E2Grids(shapes), data_rep \in {0, 1, 4, 5, 10},
     t_range \in {0, 1, 2, 3, 4, 5, 10}, param \in {11, 15, 16}}
  \cup {E2Msg([nx |-> 2, ny |-> 1, bitmap |-> <<>>, pack_width |-> 3],
              0, t_range, 15, lev) :
          t_range \in {0, 4}, lev \in E2Levels}

InitE2 ==
  enc2 = [grib_msg |-> <<>>, length |-> 0, grib2_buffer |-> <<>>, offset |-> 0,
          parameter_category |-> 0, parameter_number |-> 0, ofile |-> <<>>,
          pc |-> "start"]
IdleE2 ==
  enc2 = [grib_msg |-> <<>>, length |-> 0, grib2_buffer |-> <<>>, offset |-> 0,
          parameter_category |-> 0, parameter_number |-> 0, ofile |-> <<>>,
          pc |-> "idle"]

\* main from the return of unpackgrib1 to the call of pack_IDS, for the
\* message m and a buffer whose bytes hold fill: the length of the sections,
\* the buffer, the parameter
E2Begin(m, fill) ==
  IF ~(m.t_range <= 1 \/ m.t_range = 10 \/ (m.t_range >= 2 /\ m.t_range <= 4))
    THEN [grib_msg |-> m, length |-> 0, grib2_buffer |-> <<>>, offset |-> 0,
          parameter_category |-> 0, parameter_number |-> 0, ofile |-> <<>>,
          pc |-> "exit"]
    ELSE LET length ==
               21 + (IF m.data_rep = 3 THEN 81 ELSE 72)
               + (IF m.t_range <= 1 \/ m.t_range = 10 THEN 34 ELSE 58)
               + 21 + 6
               + (IF m.bms_included = 1 THEN (m.bitmap_len + 7) \div 8 ELSE 0)
               + 5 + (m.nx * m.ny * m.pack_width + 7) \div 8
             par == map_GRIB1_parameter_into_GRIB2(m.center_id, m.table_ver,
                                                  m.param)
         IN  [grib_msg |-> m, length |-> length,
              grib2_buffer |-> Filled(length, fill), offset |-> 0,
              parameter_category |-> par[2],
              parameter_number |-> par[3], ofile |-> <<>>,
              pc |-> "IDS"]
e2_begin ==
  /\ enc2.pc = "start"
  /\ \E m \in E2Messages(E2Shapes), fill \in E2Fill :
       enc2' = E2Begin(m, fill)
  /\ UNCHANGED notE2

pack_IDS ==
  /\ enc2.pc = "IDS"
  /\ LET msg == enc2.grib_msg
         o == enc2.offset
         length == 21
     IN  enc2' = [enc2 EXCEPT
                    !.grib2_buffer =
                      PutAll(@, <<<<o, 32, length>>, <<o + 32, 8, 1>>,
                                  <<o + 40, 16, msg.center_id>>,
                                  <<o + 56, 16, msg.sub_center_id>>,
                                  <<o + 72, 8, 18>>, <<o + 80, 8, 0>>,
                                  <<o + 88, 8, 1>>, <<o + 96, 16, msg.yr>>,
                                  <<o + 112, 8, msg.mo>>, <<o + 120, 8, msg.dy>>,
                                  <<o + 128, 8, msg.time \div 100>>,
                                  <<o + 136, 8, msg.time % 100>>,
                                  <<o + 144, 8, 0>>, <<o + 152, 8, 255>>,
                                  <<o + 160, 8, 255>>>>),
                    !.offset = o + length * 8,
                    !.pc = "GDS"]
  /\ UNCHANGED notE2

\* the length and the template of pack_GDS for a data representation
GDSLength(data_rep) == IF data_rep = 5 THEN 65 ELSE 72
GDSTemplate(data_rep) ==
  CASE data_rep = 0 -> 0 [] data_rep = 1 -> 10 [] data_rep = 4 -> 40
    [] OTHER -> 20
pack_GDS ==
  /\ enc2.pc = "GDS"
  /\ LET msg == enc2.grib_msg
         o == enc2.offset
         length == GDSLength(msg.data_rep)
         template_num == GDSTemplate(msg.data_rep)
     IN  IF msg.data_rep \notin {0, 1, 4, 5}
           THEN enc2' = [enc2 EXCEPT !.pc = "exit"]
           ELSE enc2' = [enc2 EXCEPT
                  !.grib2_buffer =
                    PutAll(@, <<<<o, 32, length>>, <<o + 32, 8, 3>>,
                                <<o + 40, 8, 0>>, <<o + 48, 32, msg.nx * msg.ny>>,
                                <<o + 80, 16, 0>>, <<o + 96, 16, template_num>>,
                                <<o + 112, 8, 6>>>>
                              \o ZeroBytes(o, 15, length)
                              \o <<<<o + 240, 32, msg.nx>>,
                                   <<o + 272, 32, msg.ny>>>>
                              \o (CASE template_num = 20 ->
                                         <<<<o + 377, 31, 40000000>>,
                                           <<o + 512, 8, 16>>>>
                                    [] template_num = 40 ->
                                         <<<<o + 568, 8, 16>>>>
                                    [] OTHER -> <<>>)),
                  !.offset = o + length * 8,
                  !.pc = "PDS"]
  /\ UNCHANGED notE2

\* the switch on level_type of pack_PDS: <<lvl1_type, lvl2_type, lvl1_scale,
\* lvl2_scale, lvl1_value, lvl2_value>>
LevelSwitch(level_type, lvl1, lvl2) ==
  CASE level_type \in {20, 100} -> <<level_type, 255, -2, 255, lvl1, lvl2>>
    [] level_type = 101 -> <<100, 100, -3, -3, lvl1, lvl2>>
    [] level_type = 102 -> <<101, 255, 0, 255, lvl1, lvl2>>
    [] level_type = 103 -> <<102, 255, 0, 255, lvl1, lvl2>>
    [] level_type = 104 -> <<103, 102, -2, -2, lvl1, lvl2>>
    [] level_type = 105 -> <<103, 255, 0, 255, lvl1, lvl2>>
    [] level_type = 106 -> <<103, 103, -2, -2, lvl1, lvl2>>
    [] level_type = 107 -> <<104, 255, 4, 255, lvl1, lvl2>>
    [] level_type = 108 -> <<104, 104, 2, 2, lvl1, lvl2>>
    [] level_type = 109 -> <<105, 255, 0, 255, lvl1, lvl2>>
    [] level_type = 110 -> <<105, 105, 0, 255, lvl1, lvl2>>
    [] level_type = 111 -> <<106, 255, 2, 255, lvl1, lvl2>>
    [] level_type = 112 -> <<106, 106, 2, 2, lvl1, lvl2>>
    [] level_type = 113 -> <<107, 255, 0, 255, lvl1, lvl2>>
    [] level_type = 114 -> <<107, 107, 0, 255, 475 - lvl1, 475 - lvl2>>
    [] level_type = 115 -> <<108, 255, -2, 255, lvl1, lvl2>>
    [] level_type = 116 -> <<108, 108, -2, -2, lvl1, lvl2>>
    [] level_type = 117 -> <<109, 255, 9, 255, lvl1, lvl2>>
    [] level_type = 119 -> <<111, 255, 4, 255, lvl1, lvl2>>
    [] level_type = 120 -> <<111, 111, 2, 2, lvl1, lvl2>>
    [] level_type = 121 -> <<100, 100, -2, -2, 1100 - lvl1, 1100 - lvl2>>
    [] level_type = 125 -> <<103, 255, 2, 255, lvl1, lvl2>>
    [] level_type = 128 -> <<104, 104, 3, 3, 1100 - lvl1, 1100 - lvl2>>
    [] level_type = 141 -> <<100, 100, -3, -2, lvl1, 1100 - lvl2>>
    [] OTHER -> <<level_type, 255, 0, 255, lvl1, lvl2>>
\* variant of StatProcess that looks at the parameter before the time range
StatProcessByParam(t_range, param) ==
  CASE param = 15 -> <<2, 2>>
    [] param = 16 -> <<3, 2>>
    [] t_range = 4 -> <<1, 2>>
    [] OTHER -> <<255, 0>>
\* the statistical process and the type of time increment of template 8;
\* process 255 when there is none
StatProcess(t_range, param) ==
  CASE t_range = 4 -> <<1, 2>>
    [] param = 15 -> <<2, 2>>
    [] param = 16 -> <<3, 2>>
    [] OTHER -> <<255, 0>>
\* the set_bits calls of pack_PDS that write the two surfaces of a section
\* 4 at bit offset o
LevelFields(o, lvl) ==
  <<<<o + 176, 8, lvl[1]>>,
    <<o + 184, 1, IF lvl[3] < 0 THEN 1 ELSE 0>>,
    <<o + 185, 7, Abs(lvl[3])>>, <<o + 192, 32, lvl[5]>>,
    <<o + 224, 8, lvl[2]>>,
    <<o + 232, 1, IF lvl[4] < 0 THEN 1 ELSE 0>>,
    <<o + 233, 7, Abs(lvl[4])>>, <<o + 240, 32, lvl[6]>>>>
pack_PDS ==
  /\ enc2.pc = "PDS"
  /\ LET msg == enc2.grib_msg
         o == enc2.offset
         length == IF msg.t_range \in {0, 1, 10} THEN 34 ELSE 58
         template_num == IF msg.t_range \in {0, 1, 10} THEN 0 ELSE 8
         lvl == LevelSwitch(msg.level_type, msg.lvl1, msg.lvl2)
         end == add_time(msg.p2, msg.fcst_units, msg.yr, msg.mo, msg.dy, msg.time)
         proc == StatProcess(msg.t_range, msg.param)
         head == <<<<o, 32, length>>, <<o + 32, 8, 4>>, <<o + 40, 16, 0>>,
                   <<o + 56, 16, template_num>>,
                   <<o + 72, 8, enc2.parameter_category>>,
                   <<o + 80, 8, enc2.parameter_number>>, <<o + 88, 8, 255>>,
                   <<o + 96, 8, msg.gen_proc>>, <<o + 104, 8, 255>>,
                   <<o + 112, 16, 65535>>, <<o + 128, 8, 255>>,
                   <<o + 136, 8, msg.fcst_units>>>>
                 \o (CASE msg.t_range \in {0, 10} -> <<<<o + 144, 32, msg.p1>>>>
                       [] msg.t_range = 1 -> <<<<o + 144, 32, 0>>>>
                       [] OTHER -> <<>>)
                 \o LevelFields(o, lvl)
         stat == <<<<o + 272, 16, end[1]>>, <<o + 288, 8, end[2]>>,
                   <<o + 296, 8, end[3]>>, <<o + 304, 8, end[4] \div 100>>,
                   <<o + 312, 8, end[4] % 100>>, <<o + 320, 8, 0>>,
                   <<o + 328, 8, 1>>, <<o + 336, 32, 0>>>>
         rest == <<<<o + 368, 8, proc[1]>>, <<o + 376, 8, proc[2]>>,
                   <<o + 384, 8, msg.fcst_units>>,
                   <<o + 392, 32, msg.p2 - msg.p1>>,
                   <<o + 424, 8, msg.fcst_units>>, <<o + 432, 32, 0>>>>
     IN  IF template_num = 8 /\ proc[1] = 255
           THEN enc2' = [enc2 EXCEPT
                           !.grib2_buffer = PutAll(@, head \o stat),
                           !.pc = "exit"]
           ELSE enc2' = [enc2 EXCEPT
                           !.grib2_buffer =
                             PutAll(@, IF template_num = 8
                                         THEN head \o stat \o rest ELSE head),
                           !.offset = o + length * 8,
                           !.pc = "DRS"]
  /\ UNCHANGED notE2

\* sign and magnitude in 16 bits, as pack_DRS writes E and D
SignMag(v) == IF v < 0 THEN 32768 - v ELSE v
pack_DRS ==
  /\ enc2.pc = "DRS"
  /\ LET msg == enc2.grib_msg
         o == enc2.offset
         length == 21
     IN  enc2' = [enc2 EXCEPT
                    !.grib2_buffer =
                      PutAll(@, <<<<o, 32, length>>, <<o + 32, 8, 5>>,
                                  <<o + 40, 32, msg.nx * msg.ny>>,
                                  <<o + 72, 16, 0>>,
                                  <<o + 88, 32,
                                    FloatWord(RatMul(msg.ref_val,
                                                     RatPow(10, msg.D)))>>,
                                  <<o + 120, 16, SignMag(msg.E)>>,
                                  <<o + 136, 16, SignMag(msg.D)>>,
                                  <<o + 152, 8, msg.pack_width>>,
                                  <<o + 160, 8, 0>>>>),
                    !.offset = o + length * 8,
                    !.pc = "BMS"]
  /\ UNCHANGED notE2

pack_BMS ==
  /\ enc2.pc = "BMS"
  /\ LET msg == enc2.grib_msg
         o == enc2.offset
         length == 6 + (IF msg.bms_included = 1
                          THEN (msg.bitmap_len + 7) \div 8 ELSE 0)
     IN  enc2' = [enc2 EXCEPT
                    !.grib2_buffer =
                      PutAll(@, <<<<o, 32, length>>, <<o + 32, 8, 6>>>>
                                \o (IF length > 6
                                      THEN <<<<o + 40, 8, 0>>>>
                                           \o [n \in 1..msg.bitmap_len |->
                                                 <<o + 48 + n - 1, 1,
                                                   msg.bitmap[n]>>]
                                      ELSE <<<<o + 40, 8, 255>>>>)),
                    !.offset = o + length * 8,
                    !.pc = "DS"]
  /\ UNCHANGED notE2

RECURSIVE DSFields(_, _, _, _)
\* the set_bits calls of the loop of pack_DS from point n on
DSFields(msg, n, off, acc) ==
  IF n > msg.nx * msg.ny THEN acc
  ELSE IF msg.gridpoints[n] # GRIB_MISSING_VALUE
    THEN DSFields(msg, n + 1, off + msg.pack_width,
                  Append(acc,
                         <<off, msg.pack_width,
                           LRound(RatDiv(RatMul(RatAdd(msg.gridpoints[n],
                                                       RatMul(<<-1, 1>>,
                                                              msg.ref_val)),
                                                RatPow(10, msg.D)),
                                         RatPow(2, msg.E)))>>))
    ELSE DSFields(msg, n + 1, off, acc)
pack_DS ==
  /\ enc2.pc = "DS"
  /\ LET msg == enc2.grib_msg
         o == enc2.offset
         length == 5 + (msg.nx * msg.ny * msg.pack_width + 7) \div 8
     IN  enc2' = [enc2 EXCEPT
                    !.grib2_buffer =
                      PutAll(@, <<<<o, 32, length>>, <<o + 32, 8, 7>>>>
                                \o DSFields(msg, 1, o + 40, <<>>)),
                    !.offset = o + length * 8,
                    !.pc = "write"]
  /\ UNCHANGED notE2

\* the three fwrite calls of main: head with the length of the message,
\* length bytes of the buffer, tail
e2_write ==
  /\ enc2.pc = "write"
  /\ LET l == enc2.length + 20
         head == <<G, R, I, B, 0, 0, 0, 2>>
                 \o SetBits(<<0, 0, 0, 0>>, 0, 0, 32)
                 \o SetBits(<<0, 0, 0, 0>>, l, 0, 32)
     IN  enc2' = [enc2 EXCEPT
                    !.ofile = head \o SubSeq(enc2.grib2_buffer, 1, enc2.length)
                              \o <<55, 55, 55, 55>>,
                    !.pc = "done"]
  /\ UNCHANGED notE2

NextE2 ==
  \/ e2_begin
  \/ pack_IDS
  \/ pack_GDS
  \/ pack_PDS
  \/ pack_DRS
  \/ pack_BMS
  \/ pack_DS
  \/ e2_write

(***************************************************************************)
(* Encoder1: main of grib2to1.c writes one GRIB-1 message for each grid of *)
(* the GRIB2Message that unpackgrib2 filled.  The messages have product    *)
(* templates 0, 1, 2 and 15, surface and isobaric levels, the parameters   *)
(* temperature and virtual temperature, and a grid at the origin with zero *)
(* increments; bitmap <<>> stands for the NULL pointer.                    *)
(*                                                                         *)
(* A grid is its leading points, gridpoints, and a run of run.count more   *)
(* points that all hold run.value.  A buffer is its leading bytes and the  *)
(* number, more, of the bytes after them; these hold nothing but the       *)
(* packed values of the run and their contents are not kept.  A grid of    *)
(* 4096 x 4096 points is a run and no leading points.                      *)
(***************************************************************************)

RatLess(a, b) == a[1] * b[2] < b[1] * a[2]
full == 16777215
RECURSIVE IbmUp(_, _)
\* the first while loop of ieee2ibm: <<ieee, exp>>
IbmUp(ieee, exp) ==
  IF exp > 0 /\ RatLess(ieee, <<full, 1>>)
    THEN IbmUp(RatMul(ieee, <<16, 1>>), exp - 1)
    ELSE <<ieee, exp>>
RECURSIVE IbmDown(_, _)
\* the second while loop of ieee2ibm
IbmDown(ieee, exp) ==
  IF RatLess(<<full, 1>>, ieee)
    THEN IbmDown(RatDiv(ieee, <<16, 1>>), exp + 1)
    ELSE <<ieee, exp>>
\* the four bytes of the int ieee2ibm returns, in memory order
ieee2ibm(ieee) ==
  IF ieee[1] = 0 THEN <<0, 0, 0, 0>>
  ELSE LET sign == IF ieee[1] < 0 THEN 1 ELSE 0
           up == IbmUp(RatMul(<<Abs(ieee[1]), ieee[2]>>, <<Pow2(24), 1>>), 64)
           down == IbmDown(up[1], up[2])
           fr == (2 * down[1][1] + down[1][2]) \div (2 * down[1][2])
       IN  PutAll(<<0, 0, 0, 0>>,
                  <<<<0, 1, sign>>, <<1, 7, down[2]>>, <<8, 24, fr>>>>)
\* memcpy of the bytes src to the bytes of b from C index at on
Memcpy(b, at, src) ==
  SubSeq(b, 1, at) \o src \o SubSeq(b, at + Len(src) + 1, Len(b))

\* The returns of mapParameterData, one row for each: <<disc, param_cat,
\* param_num, center_id, spatial_proc.type, table_version, parameter_code>>,
\* with -1 for a field no enclosing switch tests.  The switches make the
\* rows exclusive: at most one fits a message.
GRIB2ParameterCases ==
  {
     <<0, 0, 0, -1, -1, 3, 11>>, <<0, 0, 1, -1, -1, 3, 12>>, <<0, 0, 2, -1, -1, 3, 13>>,
     <<0, 0, 3, -1, -1, 3, 14>>, <<0, 0, 4, -1, -1, 3, 15>>, <<0, 0, 5, -1, -1, 3, 16>>,
     <<0, 0, 6, -1, -1, 3, 17>>, <<0, 0, 7, -1, -1, 3, 18>>, <<0, 0, 8, -1, -1, 3, 19>>,
     <<0, 0, 9, -1, -1, 3, 25>>, <<0, 0, 10, -1, -1, 3, 121>>, <<0, 0, 11, -1, -1, 3, 122>>,
     <<0, 0, 21, 7, -1, 131, 193>>, <<0, 0, 192, 7, -1, 3, 229>>, <<0, 1, 0, -1, -1, 3, 51>>,
     <<0, 1, 1, -1, -1, 3, 52>>, <<0, 1, 2, -1, -1, 3, 53>>, <<0, 1, 3, -1, -1, 3, 54>>,
     <<0, 1, 4, -1, -1, 3, 55>>, <<0, 1, 5, -1, -1, 3, 56>>, <<0, 1, 6, -1, -1, 3, 57>>,
     <<0, 1, 7, -1, -1, 3, 59>>, <<0, 1, 8, -1, -1, 3, 61>>, <<0, 1, 9, -1, -1, 3, 62>>,
     <<0, 1, 10, -1, -1, 3, 63>>, <<0, 1, 11, -1, -1, 3, 66>>, <<0, 1, 12, -1, -1, 3, 64>>,
     <<0, 1, 13, -1, -1, 3, 65>>, <<0, 1, 14, -1, -1, 3, 78>>, <<0, 1, 15, -1, -1, 3, 79>>,
     <<0, 1, 16, -1, -1, 3, 99>>, <<0, 1, 22, 7, -1, 3, 153>>, <<0, 1, 39, 7, -1, 3, 194>>,
     <<0, 1, 192, 7, -1, 3, 140>>, <<0, 1, 193, 7, -1, 3, 141>>, <<0, 1, 194, 7, -1, 3, 142>>,
     <<0, 1, 195, 7, -1, 3, 143>>, <<0, 1, 196, 7, -1, 3, 214>>, <<0, 1, 197, 7, -1, 3, 135>>,
     <<0, 1, 199, 7, -1, 3, 228>>, <<0, 1, 200, 7, -1, 3, 145>>, <<0, 1, 201, 7, -1, 3, 238>>,
     <<0, 1, 206, 7, -1, 3, 186>>, <<0, 1, 207, 7, -1, 3, 198>>, <<0, 1, 208, 7, -1, 3, 239>>,
     <<0, 1, 213, 7, -1, 3, 243>>, <<0, 1, 214, 7, -1, 3, 245>>, <<0, 1, 215, 7, -1, 3, 249>>,
     <<0, 1, 216, 7, -1, 3, 159>>, <<0, 2, 0, -1, -1, 3, 31>>, <<0, 2, 1, -1, -1, 3, 32>>,
     <<0, 2, 2, -1, -1, 3, 33>>, <<0, 2, 3, -1, -1, 3, 34>>, <<0, 2, 4, -1, -1, 3, 35>>,
     <<0, 2, 5, -1, -1, 3, 36>>, <<0, 2, 6, -1, -1, 3, 37>>, <<0, 2, 7, -1, -1, 3, 38>>,
     <<0, 2, 8, -1, -1, 3, 39>>, <<0, 2, 9, -1, -1, 3, 40>>, <<0, 2, 10, -1, -1, 3, 41>>,
     <<0, 2, 11, -1, -1, 3, 42>>, <<0, 2, 12, -1, -1, 3, 43>>, <<0, 2, 13, -1, -1, 3, 44>>,
     <<0, 2, 14, -1, -1, 3, 4>>, <<0, 2, 15, -1, -1, 3, 45>>, <<0, 2, 16, -1, -1, 3, 46>>,
     <<0, 2, 17, -1, -1, 3, 124>>, <<0, 2, 18, -1, -1, 3, 125>>, <<0, 2, 19, -1, -1, 3, 126>>,
     <<0, 2, 20, -1, -1, 3, 123>>, <<0, 2, 22, 7, -1, 3, 180>>, <<0, 2, 192, 7, -1, 3, 136>>,
     <<0, 2, 193, 7, -1, 3, 172>>, <<0, 2, 194, 7, -1, 3, 196>>, <<0, 2, 195, 7, -1, 3, 197>>,
     <<0, 2, 196, 7, -1, 3, 252>>, <<0, 2, 197, 7, -1, 3, 253>>, <<0, 2, 224, 7, -1, 129, 241>>,
     <<0, 3, 0, -1, -1, 3, 1>>, <<0, 3, 1, -1, -1, 3, 2>>, <<0, 3, 2, -1, -1, 3, 3>>,
     <<0, 3, 3, -1, -1, 3, 5>>, <<0, 3, 4, -1, -1, 3, 6>>, <<0, 3, 5, -1, -1, 3, 7>>,
     <<0, 3, 6, -1, -1, 3, 8>>, <<0, 3, 7, -1, -1, 3, 9>>, <<0, 3, 8, -1, -1, 3, 26>>,
     <<0, 3, 9, -1, -1, 3, 27>>, <<0, 3, 10, -1, -1, 3, 89>>, <<0, 3, 192, 7, -1, 3, 130>>,
     <<0, 3, 193, 7, -1, 3, 222>>, <<0, 3, 194, 7, -1, 3, 147>>, <<0, 3, 195, 7, -1, 3, 148>>,
     <<0, 3, 196, 7, -1, 3, 221>>, <<0, 3, 197, 7, -1, 3, 230>>, <<0, 3, 198, 7, -1, 3, 129>>,
     <<0, 3, 199, 7, -1, 3, 137>>, <<0, 3, 200, 7, -1, 129, 141>>, <<0, 4, 0, -1, -1, 3, 111>>,
     <<0, 4, 1, -1, -1, 3, 113>>, <<0, 4, 2, -1, -1, 3, 116>>, <<0, 4, 3, -1, -1, 3, 117>>,
     <<0, 4, 4, -1, -1, 3, 118>>, <<0, 4, 5, -1, -1, 3, 119>>, <<0, 4, 6, -1, -1, 3, 120>>,
     <<0, 4, 192, 7, -1, 3, 204>>, <<0, 4, 193, 7, -1, 3, 211>>, <<0, 4, 196, 7, -1, 3, 161>>,
     <<0, 5, 0, -1, -1, 3, 112>>, <<0, 5, 1, -1, -1, 3, 114>>, <<0, 5, 2, -1, -1, 3, 115>>,
     <<0, 5, 192, 7, -1, 3, 205>>, <<0, 5, 193, 7, -1, 3, 212>>, <<0, 6, 0, -1, -1, 3, 58>>,
     <<0, 6, 1, -1, -1, 3, 71>>, <<0, 6, 2, -1, -1, 3, 72>>, <<0, 6, 3, -1, -1, 3, 73>>,
     <<0, 6, 4, -1, -1, 3, 74>>, <<0, 6, 5, -1, -1, 3, 75>>, <<0, 6, 6, -1, -1, 3, 76>>,
     <<0, 6, 25, 74, -1, 140, 174>>, <<0, 6, 25, 7, -1, 3, 213>>, <<0, 6, 192, 7, -1, 3, 213>>,
     <<0, 6, 193, 7, -1, 3, 146>>, <<0, 6, 201, 7, -1, 133, 191>>, <<0, 7, 0, -1, -1, 3, 24>>,
     <<0, 7, 1, -1, -1, 3, 77>>, <<0, 7, 6, 7, -1, 3, 157>>, <<0, 7, 7, 7, -1, 3, 156>>,
     <<0, 7, 8, 7, -1, 3, 190>>, <<0, 7, 192, 7, -1, 3, 131>>, <<0, 7, 193, 7, -1, 3, 132>>,
     <<0, 7, 194, 7, -1, 3, 254>>, <<0, 14, 0, -1, -1, 3, 10>>, <<0, 14, 192, 7, -1, 3, 154>>,
     <<0, 15, 6, -1, -1, 3, 21>>, <<0, 15, 7, -1, -1, 3, 22>>, <<0, 15, 8, -1, -1, 3, 23>>,
     <<0, 16, 195, 7, -1, 129, 211>>, <<0, 16, 196, 7, -1, 129, 212>>, <<0, 19, 0, -1, -1, 3, 20>>,
     <<0, 19, 1, -1, -1, 3, 84>>, <<0, 19, 2, -1, -1, 3, 60>>, <<0, 19, 3, -1, -1, 3, 67>>,
     <<0, 19, 20, 74, 0, 3, 168>>, <<0, 19, 20, 74, 2, 3, 169>>, <<0, 19, 20, 7, -1, 3, 209>>,
     <<0, 19, 21, 74, 0, 3, 170>>, <<0, 19, 21, 74, 2, 3, 171>>, <<0, 19, 21, 7, -1, 3, 209>>,
     <<0, 19, 22, 74, 0, 3, 172>>, <<0, 19, 22, 74, 2, 3, 173>>, <<0, 19, 22, 7, -1, 3, 209>>,
     <<0, 19, 204, 7, -1, 3, 209>>, <<1, 0, 192, 7, -1, 3, 234>>, <<1, 0, 193, 7, -1, 3, 235>>,
     <<1, 1, 192, 7, -1, 3, 195>>, <<1, 1, 193, 7, -1, 3, 194>>, <<2, 0, 0, -1, -1, 3, 81>>,
     <<2, 0, 1, -1, -1, 3, 83>>, <<2, 0, 2, -1, -1, 3, 85>>, <<2, 0, 3, -1, -1, 3, 86>>,
     <<2, 0, 4, -1, -1, 3, 87>>, <<2, 0, 5, -1, -1, 3, 90>>, <<2, 0, 192, 7, -1, 3, 144>>,
     <<2, 0, 193, 7, -1, 3, 155>>, <<2, 0, 194, 7, -1, 3, 207>>, <<2, 0, 195, 7, -1, 3, 208>>,
     <<2, 0, 196, 7, -1, 3, 223>>, <<2, 0, 197, 7, -1, 3, 226>>, <<2, 0, 198, 7, -1, 3, 225>>,
     <<2, 0, 201, 7, -1, 130, 219>>, <<2, 0, 207, 7, -1, 3, 201>>, <<2, 3, 203, 7, -1, 130, 220>>,
     <<2, 4, 2, 7, -1, 129, 250>>, <<10, 0, 0, -1, -1, 3, 28>>, <<10, 0, 1, -1, -1, 3, 29>>,
     <<10, 0, 2, -1, -1, 3, 30>>, <<10, 0, 3, -1, -1, 3, 100>>, <<10, 0, 4, -1, -1, 3, 101>>,
     <<10, 0, 5, -1, -1, 3, 102>>, <<10, 0, 6, -1, -1, 3, 103>>, <<10, 0, 7, -1, -1, 3, 104>>,
     <<10, 0, 8, -1, -1, 3, 105>>, <<10, 0, 9, -1, -1, 3, 106>>, <<10, 0, 10, -1, -1, 3, 107>>,
     <<10, 0, 11, -1, -1, 3, 108>>, <<10, 0, 12, -1, -1, 3, 109>>, <<10, 0, 13, -1, -1, 3, 110>>,
     <<10, 1, 0, -1, -1, 3, 47>>, <<10, 1, 1, -1, -1, 3, 48>>, <<10, 1, 2, -1, -1, 3, 49>>,
     <<10, 1, 3, -1, -1, 3, 50>>, <<10, 2, 0, -1, -1, 3, 91>>, <<10, 2, 1, -1, -1, 3, 92>>,
     <<10, 2, 2, -1, -1, 3, 93>>, <<10, 2, 3, -1, -1, 3, 94>>, <<10, 2, 4, -1, -1, 3, 95>>,
     <<10, 2, 5, -1, -1, 3, 96>>, <<10, 2, 6, -1, -1, 3, 97>>, <<10, 2, 7, -1, -1, 3, 98>>,
     <<10, 3, 0, -1, -1, 3, 80>>, <<10, 3, 1, -1, -1, 3, 82>>, <<10, 4, 0, -1, -1, 3, 69>>,
     <<10, 4, 1, -1, -1, 3, 70>>, <<10, 4, 2, -1, -1, 3, 68>>, <<10, 4, 3, -1, -1, 3, 88>>
  }
\* mapParameterData: <<table_version, parameter_code>>, which is table 3 and
\* code 255 (with a warning) for a parameter no case returns for
mapParameterData(disc, param_cat, param_num, center_id, type) ==
  LET hits == {c \in GRIB2ParameterCases :
                 /\ c[1] = disc /\ c[2] = param_cat /\ c[3] = param_num
                 /\ c[4] \in {-1, center_id}
                 /\ c[5] \in {-1, type}}
  IN  IF hits = {} THEN <<3, 255>>
      ELSE LET c == CHOOSE c \in hits : TRUE IN <<c[6], c[7]>>
RECURSIVE Pow10(_)
Pow10(k) == IF k = 0 THEN 1 ELSE 10 * Pow10(k - 1)
\* A level value of md is the double (double)value/pow(10.,(double)factor)
\* of unpack_PDS, kept as the record of its two integers.  Dbl is the double
\* of an integer.
Dbl(x) == [value |-> x, factor |-> 0]
\* (int)(l*10^k): the conversion to int drops the fraction; a quotient by
\* 10^10 or more of a 31-bit value is below 1
TruncScaled(l, k) ==
  LET e == k - l.factor
  IN  IF e >= 0 THEN l.value * Pow10(e)
      ELSE IF -e > 9 THEN 0
      ELSE IF l.value >= 0 THEN l.value \div Pow10(-e)
      ELSE -((-l.value) \div Pow10(-e))
\* (int)(475.-l): a double below 2^31/10^100 is lost in the subtraction
Trunc475(l) ==
  IF l.factor >= 100 THEN 475
  ELSE IF l.factor > 9 THEN (IF l.value > 0 THEN 474 ELSE 475)
  ELSE IF l.value < 0 THEN 475 + (-l.value) \div Pow10(l.factor)
  ELSE LET q == l.value \div Pow10(l.factor)
           r == l.value % Pow10(l.factor)
       IN  IF r = 0 \/ 475 - q <= 0 THEN 475 - q ELSE 474 - q
\* mapLevelData: whether it exits, and level_type, level1, level2; uninit is
\* what level_type holds when no case stores into it
mapLevelData(lvl1_type, lvl1, lvl2_type, lvl2, center, uninit) ==
  LET one == lvl2_type = 255
      out(t, l1, l2) == [exit |-> FALSE, level_type |-> t, level1 |-> l1,
                         level2 |-> l2]
  IN  IF lvl2_type # 255 /\ lvl1_type # lvl2_type
        THEN [exit |-> TRUE, level_type |-> uninit, level1 |-> 0, level2 |-> 0]
      ELSE CASE lvl1_type \in (1..9) \cup {20} -> out(lvl1_type, 0, 0)
        [] lvl1_type = 100 ->
             IF one THEN out(100, TruncScaled(lvl1, -2), 0)
             ELSE out(101, TruncScaled(lvl1, -3), TruncScaled(lvl2, -3))
        [] lvl1_type = 101 -> out(102, 0, 0)
        [] lvl1_type = 102 ->
             IF one THEN out(103, TruncScaled(lvl1, 0), 0)
             ELSE out(104, TruncScaled(lvl1, -2), TruncScaled(lvl2, -2))
        [] lvl1_type = 103 ->
             IF one THEN out(105, TruncScaled(lvl1, 0), 0)
             ELSE out(106, TruncScaled(lvl1, -2), TruncScaled(lvl2, -2))
        [] lvl1_type = 104 ->
             IF one THEN out(107, TruncScaled(lvl1, 4), 0)
             ELSE out(108, TruncScaled(lvl1, 2), TruncScaled(lvl2, 2))
        [] lvl1_type = 105 ->
             IF one THEN out(109, TruncScaled(lvl1, 0), 0)
             ELSE out(110, TruncScaled(lvl1, 0), TruncScaled(lvl2, 0))
        [] lvl1_type = 106 ->
             IF one THEN out(111, TruncScaled(lvl1, 2), 0)
             ELSE out(112, TruncScaled(lvl1, 2), TruncScaled(lvl2, 2))
        [] lvl1_type = 107 ->
             IF one THEN out(113, TruncScaled(lvl1, 0), 0)
             ELSE out(114, Trunc475(lvl1), Trunc475(lvl2))
        [] lvl1_type = 108 ->
             IF one THEN out(115, TruncScaled(lvl1, -2), 0)
             ELSE out(116, TruncScaled(lvl1, -2), TruncScaled(lvl2, -2))
        [] lvl1_type = 109 -> out(117, TruncScaled(lvl1, 9), 0)
        [] lvl1_type = 111 ->
             IF one THEN out(119, TruncScaled(lvl1, 4), 0)
             ELSE out(120, TruncScaled(lvl1, 2), TruncScaled(lvl2, 2))
        [] lvl1_type = 117 ->
             [exit |-> TRUE, level_type |-> uninit, level1 |-> 0, level2 |-> 0]
        [] lvl1_type = 160 -> out(160, TruncScaled(lvl1, 0), 0)
        [] lvl1_type = 200 /\ center = 7 -> out(200, 0, 0)
        [] OTHER -> out(uninit, 0, 0)
\* mapTimeRange for the templates 0, 1, 2 and 15: <<p1, p2, t_range>>
mapTimeRange(time_unit, fcst_time) ==
  <<fcst_time, 0, IF time_unit = 0 THEN 10 ELSE 0>>

\* md after unpack_PDS for the templates 0, 1, 2 and 15
E1Products ==
  {[pds_templ_num |-> 0, ens_type |-> -1, perturb_num |-> 0,
    nfcst_in_ensemble |-> 0, derived_fcst_code |-> -1,
    spatial_proc |-> [stat_proc |-> 0, type |-> -1, num_points |-> 0]],
   [pds_templ_num |-> 1, ens_type |-> 3, perturb_num |-> 2,
    nfcst_in_ensemble |-> 10, derived_fcst_code |-> -1,
    spatial_proc |-> [stat_proc |-> 0, type |-> -1, num_points |-> 0]],
   [pds_templ_num |-> 2, ens_type |-> -1, perturb_num |-> 0,
    nfcst_in_ensemble |-> 10, derived_fcst_code |-> 0,
    spatial_proc |-> [stat_proc |-> 0, type |-> -1, num_points |-> 0]],
   [pds_templ_num |-> 15, ens_type |-> -1, perturb_num |-> 0,
    nfcst_in_ensemble |-> 0, derived_fcst_code |-> -1,
    spatial_proc |-> [stat_proc |-> 0, type |-> 1, num_points |-> 4]]}
\* a grid as case 7 of unpackgrib2 leaves it: point i is missing or
\* R + X*2^E/10^D with X = (seed + 5*i) mod 2^pack_width, and the points of
\* the run hold R + (2^pack_width - 1)*2^E/10^D
E1Grid(sh, gds, prod, unit, lev, bm, w, ref, sc, seed, count) ==
  LET val(x) == RatAdd(ref, RatDiv(RatMul(<<x, 1>>, RatPow(2, sc[1])),
                                   RatPow(10, sc[2])))
  IN  [md |-> [gds_templ_num |-> gds, nx |-> sh[1], ny |-> sh[2],
               pds_templ_num |-> prod.pds_templ_num,
               ens_type |-> prod.ens_type, perturb_num |-> prod.perturb_num,
               nfcst_in_ensemble |-> prod.nfcst_in_ensemble,
               derived_fcst_code |-> prod.derived_fcst_code,
               spatial_proc |-> prod.spatial_proc,
               gen_proc |-> 96, param_cat |-> 0, param_num |-> seed % 2,
               time_unit |-> unit, fcst_time |-> 3,
               lvl1_type |-> lev[1], lvl1 |-> lev[2], lvl2_type |-> 255,
               lvl2 |-> 0, R |-> ref, E |-> sc[1], D |-> sc[2],
               bitmap |-> bm],
       gridpoints |->
         [i \in 1..(sh[1] * sh[2] - count) |->
            IF bm # <<>> /\ bm[i] = 0 THEN GRIB_MISSING_VALUE
            ELSE val((seed + 5 * i) % Pow2(w))],
       run |-> [count |-> count, value |-> val(Pow2(w) - 1)]]
\* the GRIB2Message of the grids: md is the md of the last grid
E1Msg(grids) ==
  [disc |-> 0, center_id |-> 7, sub_center_id |-> 0,
   yr |-> 2020, mo |-> 2, dy |-> 28, time |-> 183000,
   num_grids |-> Len(grids), md |-> grids[Len(grids)].md, grids |-> grids]
E1Shapes == {<<1, 1>>, <<2, 1>>, <<4, 2>>, <<3, 3>>}
\* the grids of a shape: no bitmap or every other point, pack widths 0, 3
\* and 9
E1Grids(sh, gds, units) ==
  {E1Grid(sh, gds, prod, unit, <<100, 85000>>, bm, w, ref, sc, seed, 0) :
     prod \in E1Products, unit \in units,
     bm \in {<<>>, [i \in 1..(sh[1] * sh[2]) |-> i % 2]},
     w \in {0, 3, 9}, ref \in {<<0, 1>>, <<5, 2>>},
     sc \in {<<0, 0>>, <<-1, 1>>}, seed \in {1, 6}}
\* the grids of 4096 x 4095 and 4096 x 4096 points of 8 bits
E1Large ==
  {E1Grid(<<4096, ny>>, 0, prod, 1, <<1, 0>>, <<>>, 8, <<5, 2>>, <<0, 0>>, 1,
          4096 * ny) :
     ny \in {4095, 4096}, prod \in E1Products}
\* grids of 2 x 1 points as the spatial differencing of unpackgrib2 leaves
\* them when the differences sum to less than zero: the second point is
\* R - 2*2^E/10^D
E1Below ==
  {[g EXCEPT !.gridpoints[2] =
               RatAdd(g.md.R,
                      RatDiv(RatMul(<<-2, 1>>, RatPow(2, g.md.E)),
                             RatPow(10, g.md.D)))] :
     g \in {E1Grid(<<2, 1>>, 0, prod, 1, <<100, 85000>>, <<>>, 3, <<5, 2>>,
                   sc, 1, 0) :
              prod \in E1Products, sc \in {<<0, 0>>, <<-1, 1>>}}}
\* the messages converted: one grid of every shape, a grid on template 40,
\* two grids of one shape, the large grids, and the grids with a point
\* below the reference value
E1Messages(shapes) ==
  UNION {{E1Msg(<<g>>) : g \in E1Grids(sh, 0, {0, 1})} : sh \in shapes}
  \cup {E1Msg(<<g>>) : g \in E1Grids(<<2, 1>>, 40, {1})}
  \cup {E1Msg(<<g1, g2>>) :
          g1 \in {g \in E1Grids(<<2, 1>>, 0, {1}) :
                    g.md.R = <<5, 2>> /\ g.md.param_num = 1},
          g2 \in {g \in E1Grids(<<2, 1>>, 0, {1}) :
                    g.md.E = 0 /\ g.md.R = <<5, 2>> /\ g.md.param_num = 0}}
  \cup {E1Msg(<<g>>) : g \in E1Large}
  \cup {E1Msg(<<g>>) : g \in E1Below}

NoBuffer == [bytes |-> <<>>, more |-> 0]
InitE1 ==
  enc1 = [grib2_msg |-> <<>>, n |-> 0, length |-> 0, max_length |-> 0,
          grib1_buffer |-> NoBuffer, offset |-> 0, num_points |-> 0,
          num_to_pack |-> 0, pvals |-> <<>>, pack_width |-> 0,
          ofile |-> <<>>, pc |-> "start"]
IdleE1 ==
  enc1 = [grib2_msg |-> <<>>, n |-> 0, length |-> 0, max_length |-> 0,
          grib1_buffer |-> NoBuffer, offset |-> 0, num_points |-> 0,
          num_to_pack |-> 0, pvals |-> <<>>, pack_width |-> 0,
          ofile |-> <<>>, pc |-> "idle"]

\* unpackgrib2 returns 0 with a message in grib2_msg
e1_unpack ==
  /\ enc1.pc = "start"
  /\ \E m \in E1Messages(E1Shapes) :
       enc1' = [enc1 EXCEPT !.grib2_msg = m, !.n = 0, !.pc = "grid"]
  /\ UNCHANGED notE1

\* pvals[cnt] of main for a grid point
PVal(md, gridpoint) ==
  LRound(RatDiv(RatMul(RatAdd(gridpoint, RatMul(<<-1, 1>>, md.R)),
                       RatPow(10, md.D)),
                RatPow(2, md.E)))
RECURSIVE PValLoop(_, _, _)
\* the loop of main that fills pvals, from point m on
PValLoop(grid, m, pvals) ==
  IF m > Len(grid.gridpoints) THEN pvals
  ELSE IF grid.gridpoints[m] # GRIB_MISSING_VALUE
    THEN PValLoop(grid, m + 1, Append(pvals, PVal(grid.md, grid.gridpoints[m])))
    ELSE PValLoop(grid, m + 1, pvals)
\* a > b for two size_t values.  A size_t of 2^63 or more is kept as the
\* negative int that converts to it (-1 stands for 2^64 - 1).
SizeGreater(a, b) == IF (a < 0) = (b < 0) THEN a > b ELSE a < 0
RECURSIVE MaxPack(_, _)
\* max_pack of main after the loop over the points: pvals[cnt] is
\* converted to size_t for the comparison with max_pack
MaxPack(pvals, max_pack) ==
  IF pvals = <<>> THEN max_pack
  ELSE MaxPack(Tail(pvals), IF SizeGreater(Head(pvals), max_pack)
                              THEN Head(pvals)
                            ELSE max_pack)
RECURSIVE PackWidth(_, _)
\* the while loop of main on pack_width.  As doubles, pow(2.,w)-1 is below
\* a max_pack of 2^64 - 2^31 or more for every w up to 63, and
\* pow(2.,64)-1 is 2^64, which is not.
PackWidth(pack_width, max_pack) ==
  IF max_pack < 0
    THEN (IF pack_width < 64 THEN PackWidth(pack_width + 1, max_pack)
          ELSE pack_width)
  ELSE IF Pow2(pack_width) - 1 < max_pack
    THEN PackWidth(pack_width + 1, max_pack)
  ELSE pack_width
RECURSIVE Ones(_, _)
Ones(bitmap, m) ==
  IF m = 0 THEN 0 ELSE (IF bitmap[m] = 1 THEN 1 ELSE 0) + Ones(bitmap, m - 1)
PDSLength(pds_templ_num) ==
  CASE pds_templ_num \in {0, 8} -> 28
    [] pds_templ_num \in {1, 11} -> 43
    [] pds_templ_num \in {2, 12} -> 42
    [] pds_templ_num = 15 -> 43
GDSLength1(gds_templ_num) == IF gds_templ_num = 0 THEN 32 ELSE 42

\* main for grid n, from the top of the for loop to the call of packPDS: the
\* length of the sections, the packed values, their width, the buffer
e1_grid ==
  /\ enc1.pc = "grid"
  /\ LET msg == enc1.grib2_msg
         grid == msg.grids[enc1.n + 1]
         bitmap == grid.md.bitmap
         num_points == msg.md.nx * msg.md.ny
         num_to_pack == IF bitmap # <<>> THEN Ones(bitmap, num_points)
                        ELSE num_points
         pvals == PValLoop(grid, 1, <<>>)
         run_pval == PVal(grid.md, grid.run.value)
         max_pack == MaxPack(IF grid.run.count > 0 THEN Append(pvals, run_pval)
                             ELSE pvals, 0)
         pack_width == PackWidth(1, max_pack)
         data == (num_to_pack * pack_width + 7) \div 8
         kept == (Len(pvals) * pack_width + 7) \div 8
         length == PDSLength(msg.md.pds_templ_num)
                   + GDSLength1(msg.md.gds_templ_num)
                   + (IF bitmap # <<>> THEN 6 + (num_points + 7) \div 8 ELSE 0)
                   + 11 + data
     IN  IF \/ msg.md.pds_templ_num \notin {0, 8, 1, 11, 2, 12, 15}
            \/ msg.md.gds_templ_num \notin {0, 30}
            \/ Len(pvals) + grid.run.count > num_to_pack
           THEN enc1' = [enc1 EXCEPT !.pc = "exit"]
           ELSE \E fill \in E2Fill :
                  enc1' = [enc1 EXCEPT
                    !.length = length,
                    !.num_points = num_points,
                    !.num_to_pack = num_to_pack,
                    !.pvals = pvals,
                    !.pack_width = pack_width,
                    !.grib1_buffer =
                      IF length > enc1.max_length
                        THEN [bytes |-> Filled(length - (data - kept), fill),
                              more |-> data - kept]
                        ELSE @,
                    !.max_length = IF length > @ THEN length ELSE @,
                    !.offset = 0,
                    !.pc = "PDS"]
  /\ UNCHANGED notE1

packPDS ==
  /\ enc1.pc = "PDS"
  /\ LET msg == enc1.grib2_msg
         grid == msg.grids[enc1.n + 1]
         o == enc1.offset
         pdata == mapParameterData(msg.disc, grid.md.param_cat,
                                   grid.md.param_num, msg.center_id,
                                   msg.md.spatial_proc.type)
         ld == mapLevelData(grid.md.lvl1_type, Dbl(grid.md.lvl1),
                            grid.md.lvl2_type, Dbl(grid.md.lvl2),
                            msg.center_id, 0)
         lev == <<ld.level_type, ld.level1, ld.level2>>
         tr == mapTimeRange(grid.md.time_unit, grid.md.fcst_time)
         ext == IF msg.md.ens_type >= 0
                  THEN <<<<o, 24, 43>>, <<o + 320, 8, msg.md.ens_type>>,
                         <<o + 328, 8, msg.md.perturb_num>>,
                         <<o + 336, 8, msg.md.nfcst_in_ensemble>>>>
                ELSE IF msg.md.derived_fcst_code >= 0
                  THEN <<<<o, 24, 42>>, <<o + 320, 8, msg.md.derived_fcst_code>>,
                         <<o + 328, 8, msg.md.nfcst_in_ensemble>>>>
                ELSE IF msg.md.spatial_proc.type >= 0
                  THEN <<<<o, 24, 43>>,
                         <<o + 320, 8, msg.md.spatial_proc.stat_proc>>,
                         <<o + 328, 8, msg.md.spatial_proc.type>>,
                         <<o + 336, 8, msg.md.spatial_proc.num_points>>>>
                ELSE <<>>
         more == IF msg.md.ens_type >= 0 THEN 120
                 ELSE IF msg.md.derived_fcst_code >= 0 THEN 112
                 ELSE IF msg.md.spatial_proc.type >= 0 THEN 120
                 ELSE 0
     IN  enc1' = [enc1 EXCEPT
           !.grib1_buffer.bytes =
             PutAll(@, <<<<o, 24, 28>>, <<o + 24, 8, pdata[1]>>,
                         <<o + 32, 8, msg.center_id>>,
                         <<o + 40, 8, grid.md.gen_proc>>, <<o + 48, 8, 255>>,
                         <<o + 56, 8, IF grid.md.bitmap = <<>> THEN 128
                                      ELSE 192>>,
                         <<o + 64, 8, pdata[2]>>, <<o + 72, 8, lev[1]>>>>
                       \o (IF grid.md.lvl2_type = 255
                             THEN <<<<o + 80, 16, lev[2]>>>>
                             ELSE <<<<o + 80, 8, lev[2]>>,
                                    <<o + 88, 8, lev[3]>>>>)
                       \o <<<<o + 96, 8, msg.yr % 100>>,
                            <<o + 104, 8, msg.mo>>, <<o + 112, 8, msg.dy>>,
                            <<o + 120, 8, msg.time \div 10000>>,
                            <<o + 128, 8, (msg.time \div 100) % 100>>>>
                       \o (IF msg.md.time_unit = 13 THEN <<>>
                           ELSE <<<<o + 136, 8, msg.md.time_unit>>>>)
                       \o (IF tr[3] = 10 THEN <<<<o + 144, 16, tr[1]>>>>
                           ELSE <<<<o + 144, 8, tr[1]>>,
                                  <<o + 152, 8, tr[2]>>>>)
                       \o <<<<o + 160, 8, tr[3]>>,
                            <<o + 192, 8, msg.yr \div 100 + 1>>,
                            <<o + 200, 8, msg.sub_center_id>>,
                            <<o + 208, 16, SignMag(msg.md.D)>>>>
                       \o ext),
           !.offset = o + 224 + more,
           !.pc = "GDS"]
  /\ UNCHANGED notE1

\* packGDS for template 0
packGDS ==
  /\ enc1.pc = "GDS"
  /\ LET msg == enc1.grib2_msg
         o == enc1.offset
     IN  enc1' = [enc1 EXCEPT
           !.grib1_buffer.bytes =
             PutAll(@, <<<<o + 24, 8, 255>>, <<o + 32, 8, 255>>,
                         <<o, 24, 32>>, <<o + 40, 8, 0>>,
                         <<o + 48, 16, msg.md.nx>>, <<o + 64, 16, msg.md.ny>>,
                         <<o + 80, 24, 0>>, <<o + 104, 24, 0>>,
                         <<o + 128, 8, 0>>, <<o + 136, 24, 0>>,
                         <<o + 160, 24, 0>>, <<o + 184, 16, 0>>,
                         <<o + 200, 16, 0>>, <<o + 216, 8, 0>>,
                         <<o + 224, 32, 0>>>>),
           !.offset = o + 256,
           !.pc = IF msg.grids[enc1.n + 1].md.bitmap # <<>> THEN "BMS"
                  ELSE "BDS"]
  /\ UNCHANGED notE1

\* the setBits calls of packBMS for a section at bit offset o
BMSFields(o, num_points, bitmap) ==
  LET length == 6 + (num_points + 7) \div 8
      ub == 8 - (num_points % 8)
  IN  <<<<o, 24, length>>, <<o + 24, 8, ub>>, <<o + 32, 16, 0>>>>
      \o [n \in 1..num_points |-> <<o + 48 + n - 1, 1, bitmap[n]>>]
packBMS ==
  /\ enc1.pc = "BMS"
  /\ LET bitmap == enc1.grib2_msg.grids[enc1.n + 1].md.bitmap
         o == enc1.offset
         num_points == enc1.num_points
         length == 6 + (num_points + 7) \div 8
     IN  enc1' = [enc1 EXCEPT
           !.grib1_buffer.bytes =
             PutAll(@, BMSFields(o, num_points, bitmap)),
           !.offset = o + length * 8,
           !.pc = "BDS"]
  /\ UNCHANGED notE1

\* packBDS; the values of a run go to the bytes whose contents are not kept
packBDS ==
  /\ enc1.pc = "BDS"
  /\ LET md == enc1.grib2_msg.grids[enc1.n + 1].md
         o == enc1.offset
         pack_width == enc1.pack_width
         length == 11 + (enc1.num_to_pack * pack_width + 7) \div 8
         ibm_rep == ieee2ibm(RatMul(md.R, RatPow(10, md.D)))
         b1 == PutAll(enc1.grib1_buffer.bytes,
                      <<<<o, 24, length>>, <<o + 24, 4, 0>>,
                        <<o + 28, 4,
                          (length - 11) * 8 - enc1.num_to_pack * pack_width>>,
                        <<o + 32, 16, SignMag(md.E)>>>>)
         b2 == Memcpy(b1, (o + 48) \div 8, ibm_rep)
     IN  IF pack_width > src_size /\ enc1.num_to_pack > 0
           THEN \* setBits: "packing %d bits from a %d-bit field", exit(1)
                enc1' = [enc1 EXCEPT
                  !.grib1_buffer.bytes =
                    PutAll(b2, <<<<o + 80, 8, pack_width>>>>),
                  !.pc = "exit"]
           ELSE enc1' = [enc1 EXCEPT
                  !.grib1_buffer.bytes =
                    PutAll(b2, <<<<o + 80, 8, pack_width>>>>
                               \o [m \in 1..Len(enc1.pvals) |->
                                     <<o + 88 + (m - 1) * pack_width,
                                       pack_width, enc1.pvals[m]>>]),
                  !.pc = "write"]
  /\ UNCHANGED notE1

\* the five fwrite calls of main for a grid: "GRIB", the three bytes of
\* length+12, the edition, length bytes of the buffer, "7777"
e1_write ==
  /\ enc1.pc = "write"
  /\ \E fill \in E2Fill :
       LET dum == SetBits(Filled(3, fill), enc1.length + 12, 0, 24)
           b == enc1.grib1_buffer
           shown == IF enc1.length <= Len(b.bytes) THEN enc1.length
                    ELSE Len(b.bytes)
       IN  enc1' = [enc1 EXCEPT
             !.ofile = Append(@, [head |-> <<G, R, I, B>> \o dum \o <<1>>
                                           \o SubSeq(b.bytes, 1, shown),
                                  more |-> enc1.length - shown,
                                  tail |-> <<55, 55, 55, 55>>]),
             !.n = @ + 1,
             !.pc = IF enc1.n + 1 < enc1.grib2_msg.num_grids THEN "grid"
                    ELSE "done"]
  /\ UNCHANGED notE1

NextE1 ==
  \/ e1_unpack
  \/ e1_grid
  \/ packPDS
  \/ packGDS
  \/ packBMS
  \/ packBDS
  \/ e1_write

(***************************************************************************)
(* The way of a level from GRIB-1 to GRIB-2 and back: pack_PDS of          *)
(* grib1to2.c writes the two surfaces into a section 4, unpack_PDS of      *)
(* unpackgrib2.c reads them into md, mapLevelData of grib2to1.c maps md    *)
(* to the GRIB-1 level.                                                    *)
(***************************************************************************)

\* the levels sent on the way: those of E2Levels and 500 hPa
TripLevels == E2Levels \cup {<<100, 500, 0>>}
\* unpack_PDS, the two surfaces of the section 4 at bit offset o
UnpackLevels(b, o) ==
  LET factor1 == GetBits(b, 0, o + 184, 8)
      sign1 == GetBits(b, 0, o + 192, 1)
      value1 == GetBits(b, 0, o + 193, 31)
      factor2 == GetBits(b, 0, o + 232, 8)
      sign2 == GetBits(b, 0, o + 240, 1)
      value2 == GetBits(b, 0, o + 241, 31)
  IN  [lvl1_type |-> GetBits(b, 0, o + 176, 8),
       lvl1 |-> [value |-> IF sign1 = 1 THEN -value1 ELSE value1,
                 factor |-> factor1],
       lvl2_type |-> GetBits(b, 0, o + 224, 8),
       lvl2 |-> [value |-> IF sign2 = 1 THEN -value2 ELSE value2,
                 factor |-> factor2]]
NoLevels ==
  [lvl1_type |-> 0, lvl1 |-> Dbl(0), lvl2_type |-> 0, lvl2 |-> Dbl(0)]
NoLevel1 == [exit |-> FALSE, level_type |-> 0, level1 |-> 0, level2 |-> 0]
InitTrip ==
  trip = [grib1 |-> <<0, 0, 0>>, buffer |-> <<>>, md |-> NoLevels,
          back |-> NoLevel1, pc |-> "start"]
IdleTrip ==
  trip = [grib1 |-> <<0, 0, 0>>, buffer |-> <<>>, md |-> NoLevels,
          back |-> NoLevel1, pc |-> "idle"]
\* pack_PDS: the level switch and the writes of the two surfaces into a
\* section 4 of 34 bytes
trip_pack ==
  /\ trip.pc = "start"
  /\ \E l \in TripLevels, fill \in E2Fill :
       trip' = [trip EXCEPT
                  !.grib1 = l,
                  !.buffer = PutAll(Filled(34, fill),
                                    LevelFields(0, LevelSwitch(l[1], l[2], l[3]))),
                  !.pc = "packed"]
  /\ UNCHANGED notTrip
\* unpack_PDS reads the two surfaces
trip_unpack ==
  /\ trip.pc = "packed"
  /\ trip' = [trip EXCEPT !.md = UnpackLevels(trip.buffer, 0),
                          !.pc = "decoded"]
  /\ UNCHANGED notTrip
\* mapLevelData, called by packPDS of grib2to1.c for center 7
trip_map ==
  /\ trip.pc = "decoded"
  /\ \E uninit \in {0, 255} :
       LET ld == mapLevelData(trip.md.lvl1_type, trip.md.lvl1,
                              trip.md.lvl2_type, trip.md.lvl2, 7, uninit)
       IN  trip' = [trip EXCEPT !.back = ld,
                                !.pc = IF ld.exit THEN "exit" ELSE "mapped"]
  /\ UNCHANGED notTrip
NextTrip ==
  \/ trip_pack
  \/ trip_unpack
  \/ trip_map

(***************************************************************************)
(* A parameter there and back: map_GRIB1_parameter_into_GRIB2 of           *)
(* grib1to2.c, then mapParameterData of grib2to1.c on the triple it gave   *)
(***************************************************************************)
\* originating centers: those either map tests, and one neither tests
ParamCenters == {1, 7, 74, 78, 98}
\* table versions: those map_GRIB1_parameter_into_GRIB2 tests, and 1 and 3
ParamTables ==
  {1, 2, 3, 128, 129, 130, 131, 133, 140, 162, 174, 200, 201, 202, 203, 228,
   254}
InitPar ==
  pmap \in {[center_id |-> c, table_ver |-> t, param |-> p,
            parameter |-> <<255, 255, 255>>, pdata |-> <<0, 0>>,
            pc |-> "start"] :
             c \in ParamCenters, t \in ParamTables, p \in 0..255}
IdlePar ==
  pmap = [center_id |-> 0, table_ver |-> 0, param |-> 0,
         parameter |-> <<255, 255, 255>>, pdata |-> <<0, 0>>, pc |-> "idle"]
\* main of grib1to2.c maps the parameter of the GRIB-1 message
par_grib2 ==
  /\ pmap.pc = "start"
  /\ pmap' = [pmap EXCEPT
               !.parameter = map_GRIB1_parameter_into_GRIB2(
                               pmap.center_id, pmap.table_ver, pmap.param),
               !.pc = "grib2"]
  /\ UNCHANGED notPar
\* packPDS of grib2to1.c maps the triple back; unpack_PDS of unpackgrib2.c
\* has set md.spatial_proc.type to -1 for a product that is not spatially
\* processed
par_grib1 ==
  /\ pmap.pc = "grib2"
  /\ pmap' = [pmap EXCEPT
               !.pdata = mapParameterData(pmap.parameter[1], pmap.parameter[2],
                                          pmap.parameter[3], pmap.center_id,
                                          -1),
               !.pc = "grib1"]
  /\ UNCHANGED notPar
NextPar ==
  \/ par_grib2
  \/ par_grib1

(***************************************************************************)
(* add_time called again and again on the one table mdays                  *)
(***************************************************************************)
CalYears == {2019, 2020, 2100}
CalDays == {1, 28, 29, 30, 31}
CalTimes == {0, 1200, 2359}
\* the days of month mo of year yr in the Gregorian calendar
DaysIn(yr, mo) ==
  IF mo = 2 THEN (IF Leap(yr) THEN 29 ELSE 28)
  ELSE IF mo \in {4, 6, 9, 11} THEN 30 ELSE 31
\* a date and an HHMM time of day
ValidTime(yr, mo, dy, time) ==
  /\ mo \in 1..12
  /\ dy \in 1..DaysIn(yr, mo)
  /\ time \div 100 \in 0..23
  /\ time % 100 \in 0..59
NoTime == [yr |-> 0, mo |-> 0, dy |-> 0, time |-> 0]
InitCal ==
  cal = [mdays |-> mdays, was |-> mdays, from |-> NoTime, time_to_add |-> 0,
         time_units |-> 0, to |-> NoTime, pc |-> "ready"]
IdleCal ==
  cal = [mdays |-> mdays, was |-> mdays, from |-> NoTime, time_to_add |-> 0,
         time_units |-> 0, to |-> NoTime, pc |-> "idle"]
\* one call of add_time; mdays is as the calls before left it
cal_add ==
  /\ cal.pc = "ready"
  /\ \E yr \in CalYears, mo \in 1..12, dy \in CalDays, time \in CalTimes,
        time_to_add \in 0..255, time_units \in 0..2 :
       /\ ValidTime(yr, mo, dy, time)
       /\ LET r == AddTime(cal.mdays, time_to_add, time_units,
                           yr, mo, dy, time)
          IN  cal' = [mdays |-> r.mdays, was |-> cal.mdays,
                      from |-> [yr |-> yr, mo |-> mo, dy |-> dy,
                                time |-> time],
                      time_to_add |-> time_to_add,
                      time_units |-> time_units,
                      to |-> [yr |-> r.yr, mo |-> r.mo, dy |-> r.dy,
                              time |-> r.time],
                      pc |-> "added"]
  /\ UNCHANGED notCal
\* pack_PDS has used the date; the table stays for the next message
cal_return ==
  /\ cal.pc = "added"
  /\ cal' = [cal EXCEPT !.was = cal.mdays, !.from = NoTime, !.to = NoTime,
                        !.time_to_add = 0, !.time_units = 0, !.pc = "ready"]
  /\ UNCHANGED notCal
NextCal ==
  \/ cal_add
  \/ cal_return

(***************************************************************************)
(* A bit map from packBMS of grib2to1.c to unpack_BDS of unpackgrib1.c     *)
(***************************************************************************)
\* the numbers of grid points: three bytes of bit map, with every remainder
BMSPoints == 1..24
\* bit maps of n points
BMSBitmaps(n) ==
  {[i \in 1..n |-> 1], [i \in 1..n |-> i % 2],
   [i \in 1..n |-> IF i % 3 = 0 THEN 1 ELSE 0]}
InitBMS ==
  bmap = [bitmap |-> <<>>, num_points |-> 0, buffer |-> <<>>,
         bitmap_len |-> 0, decoded |-> <<>>, pc |-> "start"]
IdleBMS ==
  bmap = [bitmap |-> <<>>, num_points |-> 0, buffer |-> <<>>,
         bitmap_len |-> 0, decoded |-> <<>>, pc |-> "idle"]
\* packBMS writes the section into a buffer that malloc returned
bms_pack ==
  /\ bmap.pc = "start"
  /\ \E n \in BMSPoints, fill \in E2Fill :
       \E bitmap \in BMSBitmaps(n) :
         bmap' = [bmap EXCEPT
                   !.bitmap = bitmap, !.num_points = n,
                   !.buffer = PutAll(Filled(6 + (n + 7) \div 8, fill),
                                     BMSFields(0, n, bitmap)),
                   !.pc = "packed"]
  /\ UNCHANGED notBMS
\* unpack_BDS reads the section of a first message (bitmap is NULL and
\* bcapacity 0)
bms_unpack ==
  /\ bmap.pc = "packed"
  /\ LET r == UnpackBMS(bmap.buffer, 0, 0)
     IN  bmap' = [bmap EXCEPT !.bitmap_len = r.bitmap_len,
                            !.decoded = r.bitmap, !.pc = "decoded"]
  /\ UNCHANGED notBMS
NextBMS ==
  \/ bms_pack
  \/ bms_unpack

(***************************************************************************)
(* An IBM real from ibm2real of unpackgrib1.c to ieee2ibm of grib2to1.c,   *)
(* over the whole range of the exponent.  A double here is m * 16^k with   *)
(* m an integer of at most 24 bits, kept as [neg, m, k]: every IBM real is *)
(* one, and the multiplications and divisions by 16 of ieee2ibm are exact  *)
(* on them.                                                                *)
(***************************************************************************)
Pow16(k) == 16^k
\* ibm2real on numbers m * 16^k: pow(2.,-24.)*fr*pow(16.,exp)
IbmToReal(b, off) ==
  LET sign == GetBits(b, 0, off, 1)
      exp == GetBits(b, 0, off + 1, 7) - 64
      fr == GetBits(b, 0, off + 8, 24)
  IN  [neg |-> sign = 1, m |-> fr, k |-> exp - 6]
\* m * 16^j < full and m * 16^j > full, for 0 < m < 2^24
BelowFull(m, j) ==
  IF j >= 6 THEN FALSE
  ELSE IF j >= 0 THEN m <= (full - 1) \div Pow16(j)
  ELSE TRUE
AboveFull(m, j) ==
  IF j >= 6 THEN TRUE
  ELSE IF j >= 0 THEN m > full \div Pow16(j)
  ELSE FALSE
RECURSIVE RealUp(_, _, _)
\* the first while loop of ieee2ibm on m * 16^j: <<j, exp>>
RealUp(m, j, exp) ==
  IF exp > 0 /\ BelowFull(m, j) THEN RealUp(m, j + 1, exp - 1)
  ELSE <<j, exp>>
RECURSIVE RealDown(_, _, _)
\* variant of RealDown that does not count the divisions in exp
RealDownUncounted(m, j, exp) ==
  IF AboveFull(m, j) THEN RealDown(m, j - 1, exp) ELSE <<j, exp>>
\* the second while loop of ieee2ibm
RealDown(m, j, exp) ==
  IF AboveFull(m, j) THEN RealDown(m, j - 1, exp + 1) ELSE <<j, exp>>
\* (int)(m * 16^j + 0.5) for m * 16^j <= full
RealRound(m, j) ==
  IF j >= 0 THEN m * Pow16(j)
  ELSE IF j >= -6 THEN (2 * m + Pow16(-j)) \div (2 * Pow16(-j))
  ELSE 0
\* ieee2ibm on numbers m * 16^k: the four bytes of the int it returns, in
\* memory order
RealToIbm(x) ==
  IF x.m = 0 THEN <<0, 0, 0, 0>>
  ELSE LET sign == IF x.neg THEN 1 ELSE 0
           up == RealUp(x.m, x.k + 6, 64)
           down == RealDown(x.m, up[1], up[2])
           fr == RealRound(x.m, down[1])
       IN  PutAll(<<0, 0, 0, 0>>,
                  <<<<0, 1, sign>>, <<1, 7, down[2]>>, <<8, 24, fr>>>>)
\* fractions: the least and the greatest normalized, and some between
IbmFractions ==
  {1048576, 1048577, 1193046, 8388608, 11184810, 16777214, 16777215}
\* the four bytes of an IBM real, big-endian
IbmWord(sign, exp, fr) ==
  <<sign * 128 + exp, fr \div 65536, (fr \div 256) % 256, fr % 256>>
NoReal == [neg |-> FALSE, m |-> 0, k |-> 0]
InitFlt ==
  flt \in {[x |-> w, real |-> NoReal, ibm_rep |-> <<>>, pc |-> "start"] :
             w \in {<<0, 0, 0, 0>>}
                   \cup {IbmWord(sign, exp, fr) :
                           sign \in {0, 1}, exp \in 0..127,
                           fr \in IbmFractions}}
IdleFlt ==
  flt = [x |-> <<>>, real |-> NoReal, ibm_rep |-> <<>>, pc |-> "idle"]
\* unpack_BDS reads the reference value
flt_ibm2real ==
  /\ flt.pc = "start"
  /\ flt' = [flt EXCEPT !.real = IbmToReal(flt.x, 0), !.pc = "real"]
  /\ UNCHANGED notFlt
\* packBDS converts it back and copies the int into the buffer
flt_ieee2ibm ==
  /\ flt.pc = "real"
  /\ flt' = [flt EXCEPT !.ibm_rep = RealToIbm(flt.real), !.pc = "ibm"]
  /\ UNCHANGED notFlt
NextFlt ==
  \/ flt_ibm2real
  \/ flt_ieee2ibm

(***************************************************************************)
(* A GRIB-1 message through unpackgrib1, main of grib1to2.c and            *)
(* unpackgrib2: the Decoder1 operators fill grib_msg, the pack actions of  *)
(* Encoder2 write the GRIB-2 message, and the section actions of Decoder2  *)
(* read it back.  conv holds the position in this chain.                   *)
(***************************************************************************)
ConvShapes == {<<2, 1>>, <<3, 1>>}
\* the GRIB-1 messages converted: packed with 3 or 9 bits, reference 0 or
\* -2.5, every scaling, data representation and bitmap
ConvMessages ==
  {m \in UNION {MessagesOf(sh) : sh \in ConvShapes} :
     m.pack_width > 0 /\ m.ref.value[2] <= 2}
\* the GRIBMessage main hands to the pack functions: grid, bitmap and data
\* as unpackgrib1 left them in g1, the product as in E2Msg
ConvMsg(g1, t_range) ==
  [E2Msg([nx |-> g1.nx, ny |-> g1.ny, bitmap |-> <<>>,
          pack_width |-> g1.pack_width],
         g1.data_rep, t_range, 11, <<100, 850, 0>>)
     EXCEPT !.bms_included = g1.bms_included, !.bitmap_len = g1.bitmap_len,
            !.bitmap = g1.bitmap, !.E = g1.E, !.D = g1.D,
            !.ref_val = g1.ref_val, !.gridpoints = g1.gridpoints]
RECURSIVE Chained(_, _)
\* the counting loop of unpackgrib2 from bit off on steps from section to
\* section inside the buffer and arrives at "7777"
Chained(b, off) ==
  IF off \div 8 + 4 > Len(b) THEN FALSE
  ELSE IF At7777(b, off) THEN TRUE
  ELSE LET len == GetBits(b, 0, off, 32)
       IN  len > 0 /\ Chained(b, off + len * 8)

InitConv == conv = [pc |-> "start"]
IdleConv == conv = [pc |-> "idle"]
notConvD1 ==
  <<bitVars, isVars, d2Vars, e2Vars, e1Vars, tripVars, parVars, calVars,
    bmapVars, fltVars, pureVars,
    cpxVars, walkVars, lvlVars, geoVars, rngVars>>
notConvE2 ==
  <<bitVars, isVars, d1Vars, d2Vars, e1Vars, tripVars, parVars, calVars,
    bmapVars, fltVars, pureVars,
    cpxVars, walkVars, lvlVars, geoVars, rngVars>>
notConvD2 ==
  <<bitVars, isVars, d1Vars, e2Vars, e1Vars, tripVars, parVars, calVars,
    bmapVars, fltVars, pureVars,
    cpxVars, walkVars, lvlVars, geoVars, rngVars>>

\* main of grib1to2.c: unpackgrib1 on the first message of the input
conv_unpackgrib1 ==
  /\ conv.pc = "start"
  /\ \E m \in ConvMessages :
       /\ grib_msg' = UnpackBDS(D1Sections(NoMessage1, Grib1Bytes(m)))
       /\ d1_in' = m
  /\ d1_pc' = "done"
  /\ conv' = [pc |-> "main"]
  /\ UNCHANGED notConvD1

\* main from the return of unpackgrib1 to the call of pack_IDS
conv_main ==
  /\ conv.pc = "main"
  /\ \E t_range \in {0, 4}, fill \in E2Fill :
       enc2' = E2Begin(ConvMsg(grib_msg, t_range), fill)
  /\ conv' = [pc |-> "packing"]
  /\ UNCHANGED notConvE2

\* unpackgrib2 on the file main wrote, up to the section loop.  When the
\* counting loop does not arrive at "7777" it does not end (a section of
\* length 0) or reads outside the buffer: the decoder is lost
conv_unpackgrib2 ==
  /\ conv.pc = "packing"
  /\ enc2.pc = "done"
  /\ LET b == enc2.ofile \o Zeros(4)
         off == 128 + GetBits(b, 0, 128, 32) * 8
     IN  IF Chained(b, off)
           THEN /\ grib2_msg' = D2Open(NoMessage2, b)
                /\ d2_pc' = "loop"
           ELSE /\ grib2_msg' = [NoMessage2 EXCEPT
                                   !.buffer = b, !.buffer_capacity = Len(b),
                                   !.total_len = GetBits(b, 0, 96, 32),
                                   !.offset = 128]
                /\ d2_pc' = "lost"
  /\ heap' = <<>>
  /\ grid_num' = 0
  /\ d2_in' = <<>>
  /\ conv' = [pc |-> "unpacking"]
  /\ UNCHANGED notConvD2

NextConv ==
  \/ conv_unpackgrib1
  \/ conv_main
  \/ pack_IDS
  \/ pack_GDS
  \/ pack_PDS
  \/ pack_DRS
  \/ pack_BMS
  \/ pack_DS
  \/ e2_write
  \/ conv_unpackgrib2
  \/ unpack_GDS
  \/ unpack_PDS
  \/ unpack_DRS
  \/ unpack_BMS
  \/ unpack_DS
  \/ d2_return

(***************************************************************************)
(* Two runs of unpackgrib1 side by side, each on its own GRIBMessage: the  *)
(* first messages of the two input streams differ, the next message is the *)
(* same in both.  Of the fields of the Product Definition Section the      *)
(* table version, the flags, P2, the number in the average, D and the      *)
(* extension are followed; the others are read by one get_bits each from   *)
(* the same place of the buffer.                                           *)
(***************************************************************************)
\* the GRIBMessage after initialize(); the fields initialize() leaves unset
\* are written by the first message of a stream before they are read
NoMessage ==
  [buffer |-> <<>>, buffer_capacity |-> 0, total_len |-> 0, ed_num |-> 0,
   pds_len |-> 0, table_ver |-> 0, grid_type |-> 0, gds_included |-> 0,
   bms_included |-> 0, p2 |-> 0, t_range |-> 0, navg |-> 0, D |-> 0,
   pds_ext_len |-> 0,
   pds_ext |-> <<>>, gds_len |-> 0, data_rep |-> 0, nx |-> 0, ny |-> 0,
   offset |-> 0, bitmap |-> <<>>, bcapacity |-> 0, bitmap_len |-> 0,
   bds_len |-> 0, bds_flag |-> 0, pack_width |-> 0, E |-> 0,
   ref_val |-> <<0, 1>>, gridpoints |-> <<>>, gcapacity |-> 0]

\* unpack_IS from the read of the length on: file holds the bytes of the
\* input from 'GRIB' on, a new buffer holds fill behind the bytes read
ReadIS(msg, file, fill) ==
  LET len == GetBits(file, 0, 32, 24)
      total_len == IF len = 24 THEN len + 7 ELSE len
      required_size == total_len + 4
      grow == required_size > msg.buffer_capacity
  IN  [msg EXCEPT
         !.ed_num = IF len = 24 THEN 0 ELSE 1,
         !.pds_len = IF len = 24 THEN len ELSE @,
         !.total_len = total_len,
         !.nx = 0, !.ny = 0,
         !.buffer_capacity = IF grow THEN required_size ELSE @,
         !.buffer = SubSeq(file, 1, total_len)
                    \o (IF grow THEN Filled(4, fill)
                        ELSE SubSeq(@, total_len + 1, Len(@)))]

\* the level types and P2 values of the switches of unpack_PDS
AveragedP2 == {3, 4, 51, 113, 114, 115, 116, 117, 123, 124}
UnpackPDS(msg) ==
  LET b == msg.buffer
      o == IF msg.ed_num = 0 THEN 32 ELSE 64
      pds_len == IF msg.ed_num = 0 THEN msg.pds_len ELSE GetBits(b, 0, o, 24)
      flag == GetBits(b, 0, o + 56, 8)
      p2 == GetBits(b, 0, o + 152, 8)
      common ==
        [msg EXCEPT
           !.pds_len = pds_len,
           !.table_ver = IF msg.ed_num = 0 THEN @ ELSE GetBits(b, 0, o + 24, 8),
           !.grid_type = GetBits(b, 0, o + 48, 8),
           !.gds_included = IF (flag \div 128) % 2 = 1 THEN 1 ELSE 0,
           !.bms_included = IF (flag \div 64) % 2 = 1 THEN 1 ELSE 0,
           !.p2 = p2,
           !.t_range = GetBits(b, 0, o + 160, 8),
           !.navg = IF p2 \in AveragedP2 THEN GetBits(b, 0, o + 168, 16) ELSE 0]
  IN  IF msg.ed_num = 0
        THEN [common EXCEPT !.pds_ext_len = 0, !.offset = o + 192]
      ELSE IF pds_len > 28
        THEN LET short == pds_len < 40
                 ext_len == IF short THEN pds_len - 28 ELSE pds_len - 40
                 from == IF short THEN 36 ELSE 48
             IN  [common EXCEPT
                    !.D = SignedField(b, o + 208, 15),
                    !.pds_ext_len = ext_len,
                    !.pds_ext = [n \in 1..ext_len |-> b[from + n]],
                    !.offset = o + 224
                               + (IF short THEN ext_len ELSE ext_len + 12) * 8]
      ELSE [common EXCEPT
              !.D = SignedField(b, o + 208, 15),
              !.pds_ext_len = 0,
              !.offset = o + 224]

\* unpack_GDS for the six data representations it has a case for
UnpackGDS(msg) ==
  LET b == msg.buffer
      gds_len == GetBits(b, 0, msg.offset, 24)
  IN  [msg EXCEPT
         !.gds_len = gds_len,
         !.total_len = IF msg.ed_num = 0 THEN @ + gds_len ELSE @,
         !.data_rep = GetBits(b, 0, msg.offset + 40, 8),
         !.nx = GetBits(b, 0, msg.offset + 48, 16),
         !.ny = GetBits(b, 0, msg.offset + 64, 16),
         !.offset = @ + gds_len * 8]

\* the lengths unpack_BDS adds to total_len for edition 0
Edition0Length(bds, bms_length) ==
  [bds EXCEPT
     !.total_len = IF bds.ed_num = 0
                     THEN @ + bms_length + bds.bds_len + 1 ELSE @]

\* the bytes of a message in the file: edition 1 with a Product Definition
\* Section of 28 bytes or of 40 bytes and an extension, edition 0 with one
\* of 24 bytes right behind 'GRIB'; the Grid Description Section and the
\* Bit Map Section are there when the message has them
File1Bytes(m) ==
  LET has_bms == m.bitmap # <<>>
      pds_len == IF m.ed = 0 THEN 24
                 ELSE IF m.ext = <<>> THEN 28 ELSE 40 + Len(m.ext)
      pds == Bytes(pds_len, 3)
             \o <<m.table_ver, 0, 0, m.grid_type,
                  (IF m.gds = 1 THEN 128 ELSE 0) + (IF has_bms THEN 64 ELSE 0)>>
             \o Zeros(11) \o <<m.p2, m.t_range>> \o Bytes(m.navg, 2) \o <<0>>
             \o (IF m.ed = 0 THEN <<>>
                 ELSE <<0, 0>> \o SignMag16(m.D)
                      \o (IF m.ext = <<>> THEN <<>> ELSE Zeros(12) \o m.ext))
      gds_len == GdsLen(m.data_rep)
      gds == IF m.gds = 1
               THEN Bytes(gds_len, 3) \o <<0, 0, m.data_rep>> \o Bytes(m.nx, 2)
                    \o Bytes(m.ny, 2) \o Zeros(gds_len - 10)
               ELSE <<>>
      bms_len == 6 + (Len(m.bitmap) + 7) \div 8
      bms == IF has_bms
               THEN Bytes(bms_len, 3) \o <<(bms_len - 6) * 8 - Len(m.bitmap), 0, 0>>
                    \o PackFields(m.bitmap, 1, bms_len - 6)
               ELSE <<>>
      dlen == (Len(m.vals) * m.pack_width + 7) \div 8
      bds == Bytes(11 + dlen, 3)
             \o <<m.flag * 16 + dlen * 8 - Len(m.vals) * m.pack_width>>
             \o SignMag16(m.E) \o PackFields(<<m.ref>>, 32, 4)
             \o <<m.pack_width>> \o PackFields(m.vals, m.pack_width, dlen)
      body == pds \o gds \o bms \o bds \o <<55, 55, 55, 55>>
  IN  IF m.ed = 0 THEN <<G, R, I, B>> \o body
      ELSE <<G, R, I, B>> \o Bytes(8 + Len(body), 3) \o <<1>> \o body

\* a message of npts points with the bitmap bm (<<>>: none) and the packed
\* values seed + 5k in 3 bits, reference -2.5
PureMsg(ed, gds, data_rep, npts, bm, table_ver, D, p2, ext, seed) ==
  [ed |-> ed, table_ver |-> table_ver, grid_type |-> 255, gds |-> gds,
   data_rep |-> data_rep, nx |-> npts, ny |-> 1, bitmap |-> bm, p2 |-> p2,
   t_range |-> 0, flag |-> 0, navg |-> 5, D |-> D, ext |-> ext, E |-> 0, ref |-> -1054343168,
   pack_width |-> 3,
   vals |-> [k \in 1..Present(bm, npts) |-> (seed + 5 * k) % 8]]
\* the first messages of a stream: edition 1 with a Grid Description
\* Section of 32 bytes
PureFirsts ==
  {PureMsg(1, 1, data_rep, 3, bm, tv[1], tv[2], 3, ext, 1) :
     data_rep \in {0, 5}, bm \in {<<>>, <<1, 0, 1>>},
     tv \in {<<2, 0>>, <<3, 0>>, <<3, 1>>}, ext \in {<<>>, <<7>>}}
\* the messages decoded next: edition 1 with and without a Grid Description
\* Section, a Bit Map Section, an extension and a number in the average,
\* and edition 0
PureNexts ==
  {PureMsg(1, gds, 4, 2, bm, 2, 1, p2, ext, 6) :
     gds \in {0, 1}, bm \in {<<>>, <<0, 1>>}, p2 \in {0, 3},
     ext \in {<<>>, <<9, 8>>}}
  \cup {PureMsg(0, 0, 4, 2, <<>>, 0, 0, p2, <<>>, 6) : p2 \in {0, 3}}
\* edition 1 messages with a time range indicator and with every value of
\* the flag of the Binary Data Section that has the second of its four bits
\* set or not
PureRanges ==
  {[PureMsg(1, 1, 4, 2, <<>>, 2, 1, tr[1], <<>>, 6) EXCEPT !.t_range = tr[2]] :
     tr \in {<<0, 3>>, <<3, 3>>, <<0, 113>>, <<124, 10>>, <<7, 51>>}}
PureFlags ==
  {[PureMsg(1, 1, 4, 2, <<>>, 2, 1, 0, <<>>, 6) EXCEPT !.flag = flag] :
     flag \in {4, 5, 6, 12, 15, 8, 3}}
\* an edition 0 message with a Binary Data Section of 56 bytes
PureLong ==
  [PureMsg(0, 0, 4, 2, <<>>, 0, 0, 0, <<>>, 6) EXCEPT
     !.pack_width = 24, !.vals = [k \in 1..15 |-> (5 * k) % 8]]

\* in: the message of the call under way, in both runs for the next call
\* and in run one for the first; was: run one as the call before left it
InitPure ==
  pure = [one |-> NoMessage, two |-> NoMessage, pc |-> "start", calls |-> 0,
          in |-> <<>>, was |-> NoMessage]
IdlePure ==
  pure = [one |-> <<>>, two |-> <<>>, pc |-> "idle", calls |-> 0,
          in |-> <<>>, was |-> <<>>]

\* the first call of unpackgrib1 in each run: unpack_IS
pure_first ==
  /\ pure.pc = "start"
  /\ \E p1 \in {p \in PureFirsts : p.data_rep = 0}, p2 \in PureFirsts,
        fill \in E2Fill :
       pure' = [pure EXCEPT !.one = ReadIS(@, File1Bytes(p1), fill),
                            !.two = ReadIS(@, File1Bytes(p2), fill),
                            !.pc = "PDS", !.in = p1, !.was = pure.one]
  /\ UNCHANGED notPure

\* the next call in each run, on the same bytes: unpack_IS.  (An edition 0
\* message is decoded behind messages with D = 0: its reference value is
\* read from the bytes the message before left in the buffer, and with the
\* bytes of another D it is below the rationals kept here.)
pure_next ==
  /\ pure.pc = "first"
  /\ \E m \in PureNexts \cup PureRanges \cup PureFlags \cup {PureLong},
        fill \in E2Fill :
       /\ m.ed = 0 => pure.one.D = 0 /\ pure.two.D = 0
       /\ pure' = [pure EXCEPT !.one = ReadIS(@, File1Bytes(m), fill),
                               !.two = ReadIS(@, File1Bytes(m), fill),
                               !.pc = "PDS", !.in = m, !.was = pure.one]
  /\ UNCHANGED notPure

\* unpack_PDS in each run
pure_PDS ==
  /\ pure.pc = "PDS"
  /\ pure' = [pure EXCEPT !.one = UnpackPDS(@), !.two = UnpackPDS(@),
                          !.pc = "GDS"]
  /\ UNCHANGED notPure

\* unpack_GDS in each run, when the message has the section
pure_GDS ==
  /\ pure.pc = "GDS"
  /\ pure' = [pure EXCEPT
                !.one = IF @.gds_included = 1 THEN UnpackGDS(@) ELSE @,
                !.two = IF @.gds_included = 1 THEN UnpackGDS(@) ELSE @,
                !.pc = "BDS"]
  /\ UNCHANGED notPure

\* where the Binary Data Section starts, before unpack_BDS is called
BDSOffset(msg) ==
  IF msg.bms_included = 1
    THEN msg.offset + GetBits(msg.buffer, 0, msg.offset, 24) * 8
    ELSE msg.offset
\* (bds_flag & 0x40) != 0: unpack_BDS takes the message for second-order
\* packing and exits
SecondOrder(bds_flag) == (bds_flag \div 64) % 2 = 1
\* unpack_BDS in each run, and the return of unpackgrib1
pure_BDS ==
  /\ pure.pc = "BDS"
  /\ pure' = [pure EXCEPT
                !.one = Edition0Length(UnpackBDS(@),
                                       IF @.bms_included = 1
                                         THEN GetBits(@.buffer, 0, @.offset, 24)
                                         ELSE 0),
                !.two = Edition0Length(UnpackBDS(@),
                                       IF @.bms_included = 1
                                         THEN GetBits(@.buffer, 0, @.offset, 24)
                                         ELSE 0),
                !.pc = IF SecondOrder(GetBits(pure.one.buffer, 0,
                                              BDSOffset(pure.one), 4))
                         THEN "exit"
                       ELSE IF pure.calls = 0 THEN "first" ELSE "next",
                !.calls = @ + 1]
  /\ UNCHANGED notPure

NextPure == pure_first \/ pure_next \/ pure_PDS \/ pure_GDS \/ pure_BDS

(***************************************************************************)
(* Decoder2, complex packing with spatial differencing (Data               *)
(* Representation Template 3).  The buffer holds section 5 and section 7   *)
(* of a message; unpack_DRS reads the template into md, unpack_DS unpacks  *)
(* the groups into a grid that was never used before (gcapacity 0).  A     *)
(* write behind the end of gridpoints ends the run at "overrun", with      *)
(* written the number of entries written including that one.               *)
(***************************************************************************)

\* the group lengths a message declares
DeclaredLengths(x) ==
  [n \in 1..Len(x.raws) |->
     IF n < Len(x.raws) THEN x.lref + x.raws[n] * x.incr ELSE x.last]
\* off rounded up to a whole byte
PadByte(off) == IF off % 8 > 0 THEN off + 8 - (off % 8) ELSE off
FieldsAt(off, width, vs) ==
  [i \in 1..Len(vs) |-> <<off + (i - 1) * width, width, vs[i]>>]
RECURSIVE GroupFields(_, _, _)
GroupFields(x, n, off) ==
  IF n > Len(x.vals) THEN <<>>
  ELSE FieldsAt(off, x.widths[n], x.vals[n])
       \o GroupFields(x, n + 1, off + x.widths[n] * Len(x.vals[n]))
RECURSIVE GroupBits(_, _)
GroupBits(x, n) ==
  IF n > Len(x.vals) THEN 0
  ELSE x.widths[n] * Len(x.vals[n]) + GroupBits(x, n + 1)
\* section 5 with template 3 (49 bytes)
Sec5Complex(x) ==
  PutAll(Zeros(49),
         <<<<0, 32, 49>>, <<32, 8, 5>>, <<40, 32, x.npts>>, <<72, 16, 3>>,
           <<88, 32, x.R>>, <<120, 16, SignMag(x.E)>>,
           <<136, 16, SignMag(x.D)>>, <<152, 8, x.pack_width>>,
           <<176, 8, x.mgmt>>, <<248, 32, Len(x.raws)>>,
           <<288, 8, x.wwidth>>, <<296, 32, x.lref>>, <<328, 8, x.incr>>,
           <<336, 32, x.last>>, <<368, 8, x.lwidth>>, <<376, 8, x.order>>,
           <<384, 8, x.ovw>>>>)
\* section 7: the first values, the overall minimum, the group references,
\* widths and lengths, each list padded to a byte, and the groups
Sec7Complex(x) ==
  LET num_groups == Len(x.raws)
      o1 == 40 + x.order * x.ovw * 8
      o2 == o1 + x.ovw * 8
      o3 == PadByte(o2 + num_groups * x.pack_width)
      o4 == PadByte(o3 + num_groups * x.wwidth)
      o5 == PadByte(o4 + num_groups * x.lwidth)
      len == (o5 + GroupBits(x, 1) + 7) \div 8
  IN  PutAll(Zeros(len),
             <<<<0, 32, len>>, <<32, 8, 7>>>>
             \o FieldsAt(40, x.ovw * 8, x.first)
             \o <<<<o1, 1, IF x.omin < 0 THEN 1 ELSE 0>>,
                  <<o1 + 1, x.ovw * 8 - 1, IF x.omin < 0 THEN -x.omin ELSE x.omin>>>>
             \o FieldsAt(o2, x.pack_width, x.refs)
             \o FieldsAt(o3, x.wwidth, x.widths)
             \o FieldsAt(o4, x.lwidth, x.raws)
             \o GroupFields(x, 1, o5))

\* the lists unpack_DS reads before the groups, and the offset behind them
ReadGroups(b, off, md) ==
  LET cp == md.complex_pack
      vw == cp.order_vals_width * 8
      o1 == off + cp.order * vw
      o2 == o1 + vw
      o3 == PadByte(o2 + cp.num_groups * md.pack_width)
      o4 == PadByte(o3 + cp.num_groups * cp.width_pack_width)
      raw == ReadPacked(b, o4, cp.length_pack_width, cp.num_groups)
  IN  [first_vals |-> ReadPacked(b, off, vw, cp.order),
       omin |-> SignedField(b, o1, vw - 1),
       ref_vals |-> ReadPacked(b, o2, md.pack_width, cp.num_groups),
       widths |-> ReadPacked(b, o3, cp.width_pack_width, cp.num_groups),
       lengths |-> [n \in 1..cp.num_groups |->
                      IF n < cp.num_groups
                        THEN cp.length_ref + raw[n] * cp.length_incr
                        ELSE cp.length_last],
       off |-> PadByte(o4 + cp.num_groups * cp.length_pack_width)]

\* the loop over the groups from point m of group n on: gridpoint_index is
\* idx, g the entries written so far.  (groups.group_miss_val and
\* groups.miss_val are 2^width - 1 with missing value management and
\* otherwise a number no packed value equals.)
RECURSIVE GroupLoop(_, _, _, _, _, _)
GroupLoop(c, n, m, idx, off, g) ==
  IF n >= Len(c.lengths) THEN [g |-> g, written |-> idx, overrun |-> FALSE]
  ELSE IF m >= c.lengths[n + 1] THEN GroupLoop(c, n + 1, 0, idx, off, g)
  ELSE IF idx >= c.capacity
    THEN [g |-> g, written |-> idx + 1, overrun |-> TRUE]
  ELSE
    LET w == c.widths[n + 1]
        pval == IF w > 0 THEN GetBits(c.buffer, 0, off, w) ELSE 0
        masked == c.bitmap # <<>> /\ c.bitmap[idx + 1] = 0
        miss == IF w > 0 THEN c.mgmt > 0 /\ pval = Pow2(w) - 1
                ELSE c.mgmt > 0 /\ c.ref_vals[n + 1] = Pow2(c.pack_width) - 1
    IN  GroupLoop(c, n, m + 1, idx + 1, off + w,
                  Append(g, IF masked \/ miss THEN GRIB_MISSING_VALUE
                            ELSE <<pval + c.ref_vals[n + 1] + c.omin, 1>>))

\* one pass of the loop that undoes a difference, from point l on
RECURSIVE DiffLoop(_, _, _, _, _)
\* variant of DiffLoop that never updates lastgp
DiffLoopFirstGap(g, l, lastgp, num_not_missing, order) ==
  IF l > Len(g) THEN g
  ELSE IF g[l] # GRIB_MISSING_VALUE
    THEN IF num_not_missing >= order
           THEN DiffLoop([g EXCEPT ![l] = RatAdd(g[l], lastgp)], l + 1,
                         lastgp, num_not_missing + 1, order)
           ELSE DiffLoop(g, l + 1, lastgp, num_not_missing + 1, order)
  ELSE DiffLoop(g, l + 1, lastgp, num_not_missing, order)
DiffLoop(g, l, lastgp, num_not_missing, order) ==
  IF l > Len(g) THEN g
  ELSE IF g[l] # GRIB_MISSING_VALUE
    THEN IF num_not_missing >= order
           THEN DiffLoop([g EXCEPT ![l] = RatAdd(g[l], lastgp)], l + 1,
                         RatAdd(g[l], lastgp), num_not_missing + 1, order)
           ELSE DiffLoop(g, l + 1, lastgp, num_not_missing + 1, order)
  ELSE DiffLoop(g, l + 1, lastgp, num_not_missing, order)
\* the passes for n = order-1 down to 1
RECURSIVE DiffPasses(_, _, _, _)
DiffPasses(g, n, first_vals, order) ==
  IF n <= 0 THEN g
  ELSE DiffPasses(DiffLoop(g, 1, <<first_vals[n + 1] - first_vals[n], 1>>, 0, order),
                  n - 1, first_vals, order)
\* the last loop: the first values, then the running sum, scaled
RECURSIVE FinalLoop(_, _, _, _, _)
FinalLoop(c, g, l, lastgp, num_not_missing) ==
  IF l > Len(g) THEN g
  ELSE IF g[l] # GRIB_MISSING_VALUE
    THEN IF num_not_missing < c.order
           THEN LET f == <<c.first_vals[num_not_missing + 1], 1>>
                IN  FinalLoop(c,
                              [g EXCEPT ![l] = RatAdd(c.R, RatDiv(RatMul(f, c.E), c.D))],
                              l + 1,
                              RatAdd(RatDiv(RatMul(c.R, c.D), c.E), f),
                              num_not_missing + 1)
           ELSE FinalLoop(c,
                          [g EXCEPT ![l] = RatDiv(RatMul(RatAdd(lastgp, g[l]), c.E), c.D)],
                          l + 1, RatAdd(lastgp, g[l]), num_not_missing + 1)
  ELSE FinalLoop(c, g, l + 1, lastgp, num_not_missing)
\* entries n+1 .. of a grid set to MISSING
Missing(n) == [i \in 1..n |-> GRIB_MISSING_VALUE]
\* the groups unpacked: the differences are undone when the group loop
\* stayed inside gridpoints
Undone(c, r) ==
  IF r.overrun THEN r
  ELSE [r EXCEPT
          !.g = FinalLoop(c,
                          DiffPasses(r.g \o Missing(c.capacity - Len(r.g)),
                                     c.order - 1, c.first_vals, c.order),
                          1, <<0, 1>>, 0)]
Unpacked3(b, md, bitmap, capacity, gr) ==
  Undone([order |-> md.complex_pack.order, first_vals |-> gr.first_vals,
          R |-> md.R, E |-> RatPow(2, md.E), D |-> RatPow(10, md.D),
          capacity |-> capacity],
         GroupLoop([buffer |-> b, bitmap |-> bitmap, capacity |-> capacity,
                    mgmt |-> md.complex_pack.miss_val_mgmt,
                    pack_width |-> md.pack_width, omin |-> gr.omin,
                    ref_vals |-> gr.ref_vals, widths |-> gr.widths,
                    lengths |-> gr.lengths],
                   0, 0, 0, gr.off, <<>>))
\* unpack_DS for template 3 on a grid of capacity entries
ComplexDS(b, off, md, bitmap, capacity) ==
  IF md.complex_pack.num_groups > 0
    THEN Unpacked3(b, md, bitmap, capacity, ReadGroups(b, off, md))
    ELSE [g |-> Missing(capacity), written |-> capacity, overrun |-> FALSE]

NoComplex ==
  [num_packed |-> 0, drs_templ_num |-> 0, R |-> <<0, 1>>, E |-> 0, D |-> 0,
   pack_width |-> 0, nx |-> 0, ny |-> 0,
   complex_pack |-> [miss_val_mgmt |-> 0, num_groups |-> 0,
                     width_pack_width |-> 0, length_ref |-> 0,
                     length_incr |-> 0, length_last |-> 0,
                     length_pack_width |-> 0, order |-> 0,
                     order_vals_width |-> 0]]

\* the groups of a message: references, widths, raw lengths and values
CpxLayouts ==
  {[refs |-> <<1, 0>>, widths |-> <<3, 3>>, raws |-> <<1, 0>>,
    vals |-> <<<<2, 5>>, <<7, 1>>>>, lref |-> 1, incr |-> 1, last |-> 2],
   [refs |-> <<2, 4, 0>>, widths |-> <<3, 0, 2>>, raws |-> <<0, 1, 3>>,
    vals |-> <<<<6>>, <<>>, <<1>>>>, lref |-> 1, incr |-> 1, last |-> 1],
   [refs |-> <<2, 7, 0>>, widths |-> <<3, 0, 2>>, raws |-> <<0, 1, 3>>,
    vals |-> <<<<6>>, <<>>, <<1>>>>, lref |-> 1, incr |-> 1, last |-> 1],
   [refs |-> <<0, 3>>, widths |-> <<3, 3>>, raws |-> <<1, 0>>,
    vals |-> <<<<1, 2>>, <<4>>>>, lref |-> 0, incr |-> 2, last |-> 1],
   [refs |-> <<1, 2>>, widths |-> <<2, 2>>, raws |-> <<0, 0>>,
    vals |-> <<<<1, 0, 2>>, <<3, 1, 1>>>>, lref |-> 3, incr |-> 1, last |-> 3],
   [refs |-> <<0, 1>>, widths |-> <<3, 2>>, raws |-> <<2, 1>>,
    vals |-> <<<<4, 1>>, <<2, 0, 1>>>>, lref |-> 0, incr |-> 1, last |-> 3]}
CpxBitmaps(npts) ==
  {<<>>, [i \in 1..npts |-> IF i = 2 THEN 0 ELSE 1],
   [i \in 1..npts |-> IF i \in {1, 4} THEN 0 ELSE 1]}
\* messages of npts points, reference value 2.5
CpxMessagesOf(npts) ==
  {[npts |-> npts, bitmap |-> bm, mgmt |-> mgmt, order |-> order,
    ovw |-> ovw, first |-> SubSeq(<<3, 7>>, 1, order), omin |-> omin,
    pack_width |-> 3, wwidth |-> 4, lwidth |-> 3, R |-> 1075838976,
    E |-> sc[1], D |-> sc[2], refs |-> l.refs, widths |-> l.widths,
    raws |-> l.raws, vals |-> l.vals, lref |-> l.lref, incr |-> l.incr,
    last |-> l.last] :
     bm \in CpxBitmaps(npts), mgmt \in {0, 1}, order \in {1, 2},
     ovw \in {1, 2}, omin \in {-2, 0, 5}, sc \in {<<0, 0>>, <<-1, 1>>},
     l \in CpxLayouts}
CpxMessages == CpxMessagesOf(4) \cup CpxMessagesOf(5)

InitCpx ==
  cpx = [pc |-> "start", in |-> <<>>, buffer |-> <<>>, offset |-> 0,
         md |-> NoComplex, bitmap |-> <<>>, gridpoints |-> <<>>,
         gcapacity |-> 0, written |-> 0]
IdleCpx ==
  cpx = [pc |-> "idle", in |-> <<>>, buffer |-> <<>>, offset |-> 0,
         md |-> <<>>, bitmap |-> <<>>, gridpoints |-> <<>>,
         gcapacity |-> 0, written |-> 0]

\* the sections before section 5 have left nx, ny and the bitmap
cpx_open ==
  /\ cpx.pc = "start"
  /\ \E x \in CpxMessages :
       cpx' = [cpx EXCEPT
                 !.pc = "DRS", !.in = x,
                 !.buffer = Sec5Complex(x) \o Sec7Complex(x) \o <<55, 55, 55, 55>>,
                 !.md.nx = x.npts, !.md.ny = 1,
                 !.bitmap = x.bitmap]
  /\ UNCHANGED notCpx

\* unpack_DRS for template 3, and the step of unpackgrib2 over the section
cpx_unpack_DRS ==
  /\ cpx.pc = "DRS"
  /\ LET b == cpx.buffer
         o == cpx.offset
         value == SignedField(b, o + 136, 15)
     IN  /\ GetBits(b, 0, o + 72, 16) = 3
         /\ GetBits(b, 0, o + 160, 8) \in {0, 1}
         /\ cpx' = [cpx EXCEPT
                      !.pc = "DS",
                      !.md.num_packed = GetBits(b, 0, o + 40, 32),
                      !.md.drs_templ_num = GetBits(b, 0, o + 72, 16),
                      !.md.R = RatDiv(Float(GetBits(b, 0, o + 88, 32)),
                                      RatPow(10, value)),
                      !.md.E = SignedField(b, o + 120, 15),
                      !.md.D = value,
                      !.md.pack_width = GetBits(b, 0, o + 152, 8),
                      !.md.complex_pack =
                        [miss_val_mgmt |-> GetBits(b, 0, o + 176, 8),
                         num_groups |-> GetBits(b, 0, o + 248, 32),
                         width_pack_width |-> GetBits(b, 0, o + 288, 8),
                         length_ref |-> GetBits(b, 0, o + 296, 32),
                         length_incr |-> GetBits(b, 0, o + 328, 8),
                         length_last |-> GetBits(b, 0, o + 336, 32),
                         length_pack_width |-> GetBits(b, 0, o + 368, 8),
                         order |-> GetBits(b, 0, o + 376, 8),
                         order_vals_width |-> GetBits(b, 0, o + 384, 8)],
                      !.offset = o + GetBits(b, 0, o, 32) * 8]
  /\ UNCHANGED notCpx

\* unpack_DS for template 3: gridpoints is allocated with nx * ny entries
cpx_unpack_DS ==
  /\ cpx.pc = "DS"
  /\ LET required_size == cpx.md.ny * cpx.md.nx
         r == ComplexDS(cpx.buffer, cpx.offset + 40, cpx.md, cpx.bitmap,
                        required_size)
     IN  cpx' = [cpx EXCEPT
                   !.pc = IF r.overrun THEN "overrun" ELSE "done",
                   !.gcapacity = required_size,
                   !.gridpoints = r.g,
                   !.written = r.written,
                   !.offset = @ + GetBits(cpx.buffer, 0, cpx.offset, 32) * 8]
  /\ UNCHANGED notCpx

NextCpx == cpx_open \/ cpx_unpack_DRS \/ cpx_unpack_DS

\* ---- the two section walks of unpackgrib2 ----
\* the furthest byte a walk that has left the buffer is followed to
MaxWalk == 60
\* a section of the message: its length field, its number, and the bytes it
\* takes in the file
WalkSection(s) ==
  PutAll(Zeros(s.size), <<<<0, 32, s.len>>, <<32, 8, s.num>>>>)
RECURSIVE WalkSections(_, _)
WalkSections(secs, n) ==
  IF n > Len(secs) THEN <<>>
  ELSE WalkSection(secs[n]) \o WalkSections(secs, n + 1)
\* section 0 with the length of the whole message, the sections, the end
\* section where the message has one
WalkBytes(x) ==
  LET body == WalkSections(x.secs, 1) \o x.last
  IN  PutAll(<<71, 82, 73, 66>> \o Zeros(12),
             <<<<56, 8, 2>>, <<96, 32, 16 + Len(body)>>>>) \o body
WalkIDS == [len |-> 21, num |-> 1, size |-> 21]
WalkMessages ==
  {[secs |-> <<WalkIDS, [len |-> 6, num |-> 3, size |-> 6],
               [len |-> 5, num |-> 7, size |-> 5]>>, last |-> <<55, 55, 55, 55>>],
   [secs |-> <<WalkIDS, [len |-> 5, num |-> 7, size |-> 5],
               [len |-> 7, num |-> 2, size |-> 7],
               [len |-> 6, num |-> 7, size |-> 6]>>, last |-> <<55, 55, 55, 55>>],
   [secs |-> <<WalkIDS, [len |-> 5, num |-> 8, size |-> 5]>>,
    last |-> <<55, 55, 55, 55>>],
   [secs |-> <<WalkIDS, [len |-> 0, num |-> 3, size |-> 6],
               [len |-> 5, num |-> 7, size |-> 5]>>, last |-> <<55, 55, 55, 55>>],
   [secs |-> <<[len |-> 0, num |-> 1, size |-> 21],
               [len |-> 5, num |-> 7, size |-> 5]>>, last |-> <<55, 55, 55, 55>>],
   [secs |-> <<WalkIDS, [len |-> 5, num |-> 7, size |-> 5]>>, last |-> <<>>],
   [secs |-> <<WalkIDS, [len |-> 12, num |-> 3, size |-> 6],
               [len |-> 8, num |-> 7, size |-> 8]>>, last |-> <<55, 55, 55, 55>>],
   [secs |-> <<WalkIDS, [len |-> 30, num |-> 7, size |-> 5]>>,
    last |-> <<55, 55, 55, 55>>]}
\* what the four bytes of the buffer behind the message hold
WalkFill == {<<0, 0, 0, 0>>, <<55, 55, 55, 55>>, <<55, 0, 0, 0>>}
\* a read that ends the process
WalkFault == <<-1, -1>>
\* length and number of a section header read outside the buffer
WalkGarbage == {<<0, 0>>, <<5, 7>>, <<9, 3>>}
\* strncmp(&buffer[off/8],"7777",4): inside the buffer the bytes decide,
\* outside it anything may be there
Strncmp7777(b, off) ==
  IF off \div 8 + 4 <= Len(b)
  THEN {IF At7777(b, off) THEN "7777" ELSE "other"}
  ELSE {"7777", "other", "fault"}
\* the two get_bits of a loop body: length and number of the section at off
SectionHeader(b, off) ==
  IF off \div 8 + 5 <= Len(b)
  THEN {<<GetBits(b, 0, off, 32), GetBits(b, 0, off + 32, 8)>>}
  ELSE IF off \div 8 <= MaxWalk THEN WalkGarbage \cup {WalkFault}
  ELSE {WalkFault}

InitWalk ==
  walk = [pc |-> "start", in |-> <<>>, buffer |-> <<>>, total_len |-> 0,
          offset |-> 0, off |-> 0, num_grids |-> 0, grid_num |-> 0,
          beyond |-> FALSE]
IdleWalk ==
  walk = [pc |-> "idle", in |-> <<>>, buffer |-> <<>>, total_len |-> 0,
          offset |-> 0, off |-> 0, num_grids |-> 0, grid_num |-> 0,
          beyond |-> FALSE]

\* the next message of the file, and what the bytes of the buffer behind
\* it will hold
walk_open ==
  /\ walk.pc = "start"
  /\ \E x \in WalkMessages, fill \in WalkFill :
       walk' = [walk EXCEPT
                  !.pc = "IS", !.in = x, !.buffer = WalkBytes(x) \o fill]
  /\ UNCHANGED notWalk

\* unpack_IS: total_len bytes are read into a buffer of total_len + 4 bytes
walk_unpack_IS ==
  /\ walk.pc = "IS"
  /\ walk' = [walk EXCEPT
                !.pc = "IDS",
                !.total_len = GetBits(walk.buffer, 0, 96, 32),
                !.offset = 128, !.num_grids = 0]
  /\ UNCHANGED notWalk

\* unpack_IDS steps over section 1; off of the counting loop starts there
walk_unpack_IDS ==
  /\ walk.pc = "IDS"
  /\ walk' = [walk EXCEPT
                !.pc = "count_test",
                !.offset = @ + GetBits(walk.buffer, 0, walk.offset, 32) * 8,
                !.off = walk.offset
                        + GetBits(walk.buffer, 0, walk.offset, 32) * 8]
  /\ UNCHANGED notWalk

\* the condition of the counting loop
walk_count_test ==
  /\ walk.pc = "count_test"
  /\ \E r \in Strncmp7777(walk.buffer, walk.off) :
       walk' = [walk EXCEPT
                  !.pc = CASE r = "7777" -> "decode_test"
                           [] r = "other" -> "count_body"
                           [] OTHER -> "fault",
                  !.beyond = @ \/ walk.off \div 8 >= walk.total_len]
  /\ UNCHANGED notWalk

\* the body of the counting loop
walk_count_body ==
  /\ walk.pc = "count_body"
  /\ \E h \in SectionHeader(walk.buffer, walk.off) :
       walk' = IF h = WalkFault THEN [walk EXCEPT !.pc = "fault"]
               ELSE [walk EXCEPT
                       !.pc = "count_test",
                       !.num_grids = @ + (IF h[2] = 7 THEN 1 ELSE 0),
                       !.off = @ + h[1] * 8]
  /\ UNCHANGED notWalk

\* the condition of the decoding loop
walk_decode_test ==
  /\ walk.pc = "decode_test"
  /\ \E r \in Strncmp7777(walk.buffer, walk.offset) :
       walk' = [walk EXCEPT
                  !.pc = CASE r = "7777" -> "done"
                           [] r = "other" -> "decode_body"
                           [] OTHER -> "fault",
                  !.beyond = @ \/ walk.offset \div 8 >= walk.total_len]
  /\ UNCHANGED notWalk

\* the body of the decoding loop; the unpackers of the sections leave offset
\* and the buffer alone
walk_decode_body ==
  /\ walk.pc = "decode_body"
  /\ \E h \in SectionHeader(walk.buffer, walk.offset) :
       walk' = IF h = WalkFault THEN [walk EXCEPT !.pc = "fault"]
               ELSE [walk EXCEPT
                       !.pc = "decode_test",
                       !.grid_num = @ + (IF h[2] = 7 THEN 1 ELSE 0),
                       !.offset = @ + h[1] * 8]
  /\ UNCHANGED notWalk

NextWalk ==
  \/ walk_open
  \/ walk_unpack_IS
  \/ walk_unpack_IDS
  \/ walk_count_test
  \/ walk_count_body
  \/ walk_decode_test
  \/ walk_decode_body

\* ---- the level type octet of packPDS over the grids of a message ----
\* the two surfaces of a GRIB-2 grid as pack_PDS lays them out: types,
\* scale factors, values
LvlGrids ==
  {<<1, 255, 0, 255, 0, 0>>, <<100, 255, 0, 255, 50000, 0>>,
   <<103, 103, 0, 0, 200, 1000>>, <<10, 255, 0, 255, 0, 0>>,
   <<110, 255, 0, 255, 3, 0>>, <<200, 255, 0, 255, 0, 0>>,
   <<117, 255, 0, 255, 0, 0>>, <<100, 108, 0, 0, 500, 3000>>}
\* what the stack holds where packPDS declares level_type, in the range of
\* the octet
LvlGarbage == {0, 255}
InitLvl ==
  levels = [pc |-> "start", center |-> 0, secs |-> <<>>, n |-> 0,
         md |-> NoLevels, level_type |-> 0, ld |-> NoLevel1,
         held |-> <<>>, octets |-> <<>>]
IdleLvl ==
  levels = [pc |-> "idle", center |-> 0, secs |-> <<>>, n |-> 0,
         md |-> NoLevels, level_type |-> 0, ld |-> NoLevel1,
         held |-> <<>>, octets |-> <<>>]

\* a message of two grids from a center; level_type is not initialized
lvl_open ==
  /\ levels.pc = "start"
  /\ \E c \in {7, 98}, g1 \in LvlGrids, g2 \in LvlGrids, v \in LvlGarbage :
       levels' = [levels EXCEPT
                 !.pc = "PDS2", !.center = c, !.level_type = v,
                 !.secs = <<PutAll(Zeros(34), LevelFields(0, g1)),
                            PutAll(Zeros(34), LevelFields(0, g2))>>]
  /\ UNCHANGED notLvl

\* unpack_PDS of unpackgrib2.c reads the surfaces of grid n
lvl_unpack_PDS ==
  /\ levels.pc = "PDS2"
  /\ levels' = [levels EXCEPT !.pc = "map",
                        !.md = UnpackLevels(levels.secs[levels.n + 1], 0)]
  /\ UNCHANGED notLvl

\* packPDS calls mapLevelData with the address of level_type
lvl_mapLevelData ==
  /\ levels.pc = "map"
  /\ levels' = [levels EXCEPT
               !.ld = mapLevelData(levels.md.lvl1_type, levels.md.lvl1,
                                   levels.md.lvl2_type, levels.md.lvl2,
                                   levels.center, levels.level_type),
               !.held = Append(@, levels.level_type),
               !.pc = "mapped"]
  /\ UNCHANGED notLvl

\* packPDS writes the level type octet, or the process has ended; at the
\* next call level_type holds what this call left or anything else
lvl_packPDS ==
  /\ levels.pc = "mapped"
  /\ \E v \in LvlGarbage \cup {levels.ld.level_type} :
       levels' = IF levels.ld.exit THEN [levels EXCEPT !.pc = "exit"]
              ELSE [levels EXCEPT
                      !.octets = Append(@, levels.ld.level_type % 256),
                      !.level_type = v,
                      !.n = @ + 1,
                      !.pc = IF levels.n + 1 = Len(levels.secs) THEN "done"
                             ELSE "PDS2"]
  /\ UNCHANGED notLvl

NextLvl ==
  \/ lvl_open
  \/ lvl_unpack_PDS
  \/ lvl_mapLevelData
  \/ lvl_packPDS

\* ---- the geometry of a grid from GRIB-1 to GRIB-2 ----
\* latitude/longitude and Gaussian grids of a GRIB-1 message: corners and
\* increments in millidegrees, for data_rep 4 lainc is the number of
\* parallels between a pole and the equator
GeoGrids ==
  {[data_rep |-> c[1], nx |-> 144, ny |-> c[2], slat |-> s[1], slon |-> s[2],
    elat |-> e[1], elon |-> e[2], loinc |-> i, lainc |-> c[3],
    rescomp |-> r, scan_mode |-> 64] :
     c \in {<<0, 73, 2500>>, <<0, 2, 1>>, <<4, 96, 48>>, <<4, 2, 320>>},
     s \in {<<90000, 0>>, <<-35123, -120500>>, <<0, 359999>>},
     e \in {<<-90000, 357500>>, <<42001, -60000>>},
     i \in {2500, 1875, 1}, r \in {128, 1}}
\* sign and magnitude of a corner
GeoCorner(off, bits, v) ==
  <<<<off, 1, IF v < 0 THEN 1 ELSE 0>>, <<off + 1, bits, Abs(v)>>>>
\* the Grid Description Section of 32 bytes of the GRIB-1 message
Gds1Bytes(g) ==
  PutAll(Zeros(32),
         <<<<0, 24, 32>>, <<24, 8, 0>>, <<32, 8, 255>>, <<40, 8, g.data_rep>>,
           <<48, 16, g.nx>>, <<64, 16, g.ny>>>>
         \o GeoCorner(80, 23, g.slat) \o GeoCorner(104, 23, g.slon)
         \o <<<<128, 8, g.rescomp>>>>
         \o GeoCorner(136, 23, g.elat) \o GeoCorner(160, 23, g.elon)
         \o <<<<184, 16, g.loinc>>, <<200, 16, g.lainc>>,
              <<216, 8, g.scan_mode>>>>)
\* ival*0.001 with the sign applied
Milli(sign, ival) == RatNorm(IF sign = 1 THEN -ival ELSE ival, 1000)
\* unpack_GDS of unpackgrib1.c for data_rep 0, 4 and 10
UnpackGeometry1(b, o) ==
  [data_rep |-> GetBits(b, 0, o + 40, 8),
   nx |-> GetBits(b, 0, o + 48, 16), ny |-> GetBits(b, 0, o + 64, 16),
   slat |-> Milli(GetBits(b, 0, o + 80, 1), GetBits(b, 0, o + 81, 23)),
   slon |-> Milli(GetBits(b, 0, o + 104, 1), GetBits(b, 0, o + 105, 23)),
   rescomp |-> GetBits(b, 0, o + 128, 8),
   elat |-> Milli(GetBits(b, 0, o + 136, 1), GetBits(b, 0, o + 137, 23)),
   elon |-> Milli(GetBits(b, 0, o + 160, 1), GetBits(b, 0, o + 161, 23)),
   loinc |-> Milli(0, GetBits(b, 0, o + 184, 16)),
   lainc |-> IF GetBits(b, 0, o + 40, 8) = 0
               THEN Milli(0, GetBits(b, 0, o + 200, 16))
               ELSE <<GetBits(b, 0, o + 200, 16), 1>>,
   scan_mode |-> GetBits(b, 0, o + 216, 8)]
\* abs(x*1000000.): abs takes an int, the conversion drops the fraction
AbsMicro(x) == Abs(RatMul(x, <<1000000, 1>>)[1]) \div RatMul(x, <<1000000, 1>>)[2]
\* a corner as pack_GDS writes it
MicroCorner(off, x) ==
  <<<<off, 1, IF x[1] < 0 THEN 1 ELSE 0>>, <<off + 1, 31, AbsMicro(x)>>>>
\* the resolution and component flags of pack_GDS
Rcflg(rescomp) ==
  (IF (rescomp \div 128) % 2 = 1 THEN 32 + 16 ELSE 0) + (rescomp % 16)
\* scan_mode | 0x10
Or16(scan_mode) ==
  IF (scan_mode \div 16) % 2 = 1 THEN scan_mode ELSE scan_mode + 16
\* pack_GDS of grib1to2.c for the templates 0 and 40: the fields of a
\* section 3 of 72 bytes at bit offset o
PackGeometry(msg, o) ==
  LET template_num == IF msg.data_rep = 0 THEN 0 ELSE 40
  IN  <<<<o, 32, 72>>, <<o + 32, 8, 3>>, <<o + 40, 8, 0>>,
        <<o + 48, 32, msg.nx * msg.ny>>, <<o + 80, 16, 0>>,
        <<o + 96, 16, template_num>>, <<o + 112, 8, 6>>, <<o + 120, 8, 0>>,
        <<o + 128, 32, 0>>, <<o + 160, 8, 0>>, <<o + 168, 32, 0>>,
        <<o + 200, 8, 0>>, <<o + 208, 32, 0>>, <<o + 240, 32, msg.nx>>,
        <<o + 272, 32, msg.ny>>, <<o + 304, 32, 0>>, <<o + 336, 32, 0>>>>
      \o MicroCorner(o + 368, msg.slat) \o MicroCorner(o + 400, msg.slon)
      \o <<<<o + 432, 8, Rcflg(msg.rescomp)>>>>
      \o MicroCorner(o + 440, msg.elat) \o MicroCorner(o + 472, msg.elon)
      \o (IF template_num = 0
            THEN <<<<o + 504, 32, LRound(RatMul(msg.loinc, <<1000000, 1>>))>>,
                   <<o + 536, 32, LRound(RatMul(msg.lainc, <<1000000, 1>>))>>,
                   <<o + 568, 8, msg.scan_mode>>>>
            ELSE <<<<o + 504, 32, LRound(RatMul(msg.lainc, <<1000000, 1>>))>>,
                   <<o + 536, 32, LRound(msg.lainc)>>,
                   <<o + 568, 8, Or16(msg.scan_mode)>>>>)
\* value/1000000. with the sign applied
Micro(sign, value) == RatNorm(IF sign = 1 THEN -value ELSE value, 1000000)
\* unpack_GDS of unpackgrib2.c for the templates 0 and 40; lainc is stored
\* for template 0 only
UnpackGeometry2(b, o, lainc) ==
  [gds_templ_num |-> GetBits(b, 0, o + 96, 16),
   nx |-> GetBits(b, 0, o + 240, 32), ny |-> GetBits(b, 0, o + 272, 32),
   slat |-> Micro(GetBits(b, 0, o + 368, 1), GetBits(b, 0, o + 369, 31)),
   slon |-> Micro(GetBits(b, 0, o + 400, 1), GetBits(b, 0, o + 401, 31)),
   rescomp |-> GetBits(b, 0, o + 432, 8),
   elat |-> Micro(GetBits(b, 0, o + 440, 1), GetBits(b, 0, o + 441, 31)),
   elon |-> Micro(GetBits(b, 0, o + 472, 1), GetBits(b, 0, o + 473, 31)),
   loinc |-> Micro(0, GetBits(b, 0, o + 504, 32)),
   lainc |-> IF GetBits(b, 0, o + 96, 16) = 0
               THEN Micro(0, GetBits(b, 0, o + 536, 32)) ELSE lainc,
   scan_mode |-> GetBits(b, 0, o + 568, 8)]
NoGeometry ==
  [data_rep |-> 0, nx |-> 0, ny |-> 0, slat |-> <<0, 1>>, slon |-> <<0, 1>>,
   rescomp |-> 0, elat |-> <<0, 1>>, elon |-> <<0, 1>>, loinc |-> <<0, 1>>,
   lainc |-> <<0, 1>>, scan_mode |-> 0]
NoGeometry2 ==
  [gds_templ_num |-> 0, nx |-> 0, ny |-> 0, slat |-> <<0, 1>>,
   slon |-> <<0, 1>>, rescomp |-> 0, elat |-> <<0, 1>>, elon |-> <<0, 1>>,
   loinc |-> <<0, 1>>, lainc |-> <<0, 1>>, scan_mode |-> 0]
InitGeo ==
  geo = [pc |-> "start", in |-> <<>>, buffer |-> <<>>, grib_msg |-> NoGeometry,
         grib2_buffer |-> <<>>, md |-> NoGeometry2]
IdleGeo ==
  geo = [pc |-> "idle", in |-> <<>>, buffer |-> <<>>, grib_msg |-> NoGeometry,
         grib2_buffer |-> <<>>, md |-> NoGeometry2]

\* a GRIB-1 message with the grid g, and the bytes of the output buffer
geo_open ==
  /\ geo.pc = "start"
  /\ \E g \in GeoGrids, fill \in E2Fill :
       geo' = [geo EXCEPT !.pc = "GDS1", !.in = g, !.buffer = Gds1Bytes(g),
                          !.grib2_buffer = Filled(72, fill)]
  /\ UNCHANGED notGeo

\* unpack_GDS of unpackgrib1.c
geo_unpack_GDS1 ==
  /\ geo.pc = "GDS1"
  /\ geo' = [geo EXCEPT !.pc = "pack",
                        !.grib_msg = UnpackGeometry1(geo.buffer, 0)]
  /\ UNCHANGED notGeo

\* pack_GDS of grib1to2.c
geo_pack_GDS ==
  /\ geo.pc = "pack"
  /\ geo' = [geo EXCEPT !.pc = "GDS2",
                        !.grib2_buffer = PutAll(@, PackGeometry(geo.grib_msg, 0))]
  /\ UNCHANGED notGeo

\* unpack_GDS of unpackgrib2.c
geo_unpack_GDS2 ==
  /\ geo.pc = "GDS2"
  /\ geo' = [geo EXCEPT
               !.pc = "done",
               !.md = UnpackGeometry2(geo.grib2_buffer, 0, geo.md.lainc)]
  /\ UNCHANGED notGeo

NextGeo ==
  \/ geo_open
  \/ geo_unpack_GDS1
  \/ geo_pack_GDS
  \/ geo_unpack_GDS2

\* ---- a time range from GRIB-1 to GRIB-2 and back ----
\* reference times of the GRIB-1 messages: <<yr, mo, dy, time>>
RngTimes ==
  {<<2021, 6, 15, 0>>, <<2020, 2, 28, 1830>>, <<2021, 12, 31, 2345>>}
\* the messages converted: P1 is 0
RngMessages ==
  {[yr |-> t[1], mo |-> t[2], dy |-> t[3], time |-> t[4], fcst_units |-> u,
    p1 |-> 0, p2 |-> p2, t_range |-> r, param |-> par] :
     t \in RngTimes, u \in {0, 1, 2}, p2 \in {0, 1, 6, 14, 48, 255},
     r \in {2, 3, 4}, par \in {11, 15, 16}}
\* pack_PDS of grib1to2.c for template 8, without the surfaces: the fields
\* of a section 4 at bit offset o
StatFields(msg, o) ==
  LET end == add_time(msg.p2, msg.fcst_units, msg.yr, msg.mo, msg.dy, msg.time)
      proc == StatProcess(msg.t_range, msg.param)
  IN  <<<<o, 32, 58>>, <<o + 32, 8, 4>>, <<o + 40, 16, 0>>, <<o + 56, 16, 8>>,
        <<o + 136, 8, msg.fcst_units>>,
        <<o + 272, 16, end[1]>>, <<o + 288, 8, end[2]>>,
        <<o + 296, 8, end[3]>>, <<o + 304, 8, end[4] \div 100>>,
        <<o + 312, 8, end[4] % 100>>, <<o + 320, 8, 0>>, <<o + 328, 8, 1>>,
        <<o + 336, 32, 0>>, <<o + 368, 8, proc[1]>>, <<o + 376, 8, proc[2]>>,
        <<o + 384, 8, msg.fcst_units>>, <<o + 392, 32, msg.p2 - msg.p1>>,
        <<o + 424, 8, msg.fcst_units>>, <<o + 432, 32, 0>>>>
\* unpack_PDS of unpackgrib2.c for template 8: the time unit, the forecast
\* time and the statistical process block
UnpackStat(b, o) ==
  [pds_templ_num |-> GetBits(b, 0, o + 56, 16),
   time_unit |-> GetBits(b, 0, o + 136, 8),
   fcst_time |-> GetBits(b, 0, o + 144, 32),
   eyr |-> GetBits(b, 0, o + 272, 16), emo |-> GetBits(b, 0, o + 288, 8),
   edy |-> GetBits(b, 0, o + 296, 8),
   etime |-> GetBits(b, 0, o + 304, 8) * 10000
             + GetBits(b, 0, o + 312, 8) * 100 + GetBits(b, 0, o + 320, 8),
   num_ranges |-> GetBits(b, 0, o + 328, 8),
   nmiss |-> GetBits(b, 0, o + 336, 32),
   proc_code |-> GetBits(b, 0, o + 368, 8),
   incr_length |-> GetBits(b, 0, o + 432, 32)]
\* mapStatisticalEndTime for the time units 0 to 4
mapStatisticalEndTime(msg, md) ==
  CASE md.time_unit = 0 ->
         ((md.etime \div 100) % 100) - ((msg.time \div 100) % 100)
    [] md.time_unit = 1 -> md.etime \div 10000 - msg.time \div 10000
    [] md.time_unit = 2 -> md.edy - msg.dy
    [] md.time_unit = 3 -> md.emo - msg.mo
    [] OTHER -> md.eyr - msg.yr
\* mapTimeRange for template 8 with one time range: whether it exits, and
\* p1, p2, t_range
mapTimeRange8(msg, md) ==
  IF md.proc_code \in {0, 1, 2, 3, 4}
    THEN [exit |-> md.incr_length # 0 \/ md.time_unit > 4,
          p1 |-> md.fcst_time, p2 |-> mapStatisticalEndTime(msg, md),
          t_range |-> CASE md.proc_code = 0 -> 3 [] md.proc_code = 1 -> 4
                        [] md.proc_code = 4 -> 5 [] OTHER -> 2]
    ELSE [exit |-> TRUE, p1 |-> 0, p2 |-> 0, t_range |-> 0]
NoStat ==
  [pds_templ_num |-> 0, time_unit |-> 0, fcst_time |-> 0, eyr |-> 0,
   emo |-> 0, edy |-> 0, etime |-> 0, num_ranges |-> 0, nmiss |-> 0,
   proc_code |-> 0, incr_length |-> 0]
NoRange == [exit |-> FALSE, p1 |-> 0, p2 |-> 0, t_range |-> 0]
InitRng ==
  rng = [pc |-> "start", in |-> <<>>, buffer |-> <<>>, time |-> 0,
         md |-> NoStat, back |-> NoRange]
IdleRng ==
  rng = [pc |-> "idle", in |-> <<>>, buffer |-> <<>>, time |-> 0,
         md |-> NoStat, back |-> NoRange]

\* pack_PDS of grib1to2.c writes template 8 into a buffer, or exits when the
\* message has no statistical process
rng_pack_PDS ==
  /\ rng.pc = "start"
  /\ \E m \in RngMessages, fill \in E2Fill :
       rng' = IF StatProcess(m.t_range, m.param)[1] = 255
                THEN [rng EXCEPT !.pc = "exit1", !.in = m]
                ELSE [rng EXCEPT
                        !.pc = "packed", !.in = m,
                        !.buffer = PutAll(Filled(58, fill), StatFields(m, 0))]
  /\ UNCHANGED notRng

\* unpack_IDS and unpack_PDS of unpackgrib2.c: the reference time is the
\* one pack_IDS wrote, with the seconds 0
rng_unpack_PDS ==
  /\ rng.pc = "packed"
  /\ rng' = [rng EXCEPT
               !.pc = "decoded",
               !.time = (rng.in.time \div 100) * 10000
                        + (rng.in.time % 100) * 100,
               !.md = UnpackStat(rng.buffer, 0)]
  /\ UNCHANGED notRng

\* mapTimeRange of grib2to1.c
rng_mapTimeRange ==
  /\ rng.pc = "decoded"
  /\ rng' = [rng EXCEPT
               !.back = mapTimeRange8([yr |-> rng.in.yr, mo |-> rng.in.mo,
                                       dy |-> rng.in.dy, time |-> rng.time],
                                      rng.md),
               !.pc = IF mapTimeRange8([yr |-> rng.in.yr, mo |-> rng.in.mo,
                                        dy |-> rng.in.dy, time |-> rng.time],
                                       rng.md).exit
                        THEN "exit" ELSE "mapped"]
  /\ UNCHANGED notRng

NextRng ==
  \/ rng_pack_PDS
  \/ rng_unpack_PDS
  \/ rng_mapTimeRange

BitsInit ==
  InitBits /\ IdleIS /\ IdleD1 /\ IdleD2 /\ IdleE2 /\ IdleE1 /\ IdleTrip /\
  IdlePar /\ IdleCal /\ IdleBMS /\ IdleFlt /\ IdleConv /\ IdlePure /\
  IdleCpx /\ IdleWalk /\ IdleLvl /\ IdleGeo /\ IdleRng
SpecBits == BitsInit /\ [][NextBits]_vars
ISInit ==
  InitIS /\ IdleBits /\ IdleD1 /\ IdleD2 /\ IdleE2 /\ IdleE1 /\ IdleTrip /\
  IdlePar /\ IdleCal /\ IdleBMS /\ IdleFlt /\ IdleConv /\ IdlePure /\
  IdleCpx /\ IdleWalk /\ IdleLvl /\ IdleGeo /\ IdleRng
SpecIS == ISInit /\ [][NextIS]_vars
D1Init ==
  InitD1 /\ IdleBits /\ IdleIS /\ IdleD2 /\ IdleE2 /\ IdleE1 /\ IdleTrip /\
  IdlePar /\ IdleCal /\ IdleBMS /\ IdleFlt /\ IdleConv /\ IdlePure /\
  IdleCpx /\ IdleWalk /\ IdleLvl /\ IdleGeo /\ IdleRng
SpecDec1 == D1Init /\ [][NextD1]_vars
D2Init ==
  InitD2 /\ IdleBits /\ IdleIS /\ IdleD1 /\ IdleE2 /\ IdleE1 /\ IdleTrip /\
  IdlePar /\ IdleCal /\ IdleBMS /\ IdleFlt /\ IdleConv /\ IdlePure /\
  IdleCpx /\ IdleWalk /\ IdleLvl /\ IdleGeo /\ IdleRng
SpecDec2 == D2Init /\ [][NextD2]_vars
E2Init ==
  InitE2 /\ IdleBits /\ IdleIS /\ IdleD1 /\ IdleD2 /\ IdleE1 /\ IdleTrip /\
  IdlePar /\ IdleCal /\ IdleBMS /\ IdleFlt /\ IdleConv /\ IdlePure /\
  IdleCpx /\ IdleWalk /\ IdleLvl /\ IdleGeo /\ IdleRng
SpecEnc2 == E2Init /\ [][NextE2]_vars
E1Init ==
  InitE1 /\ IdleBits /\ IdleIS /\ IdleD1 /\ IdleD2 /\ IdleE2 /\ IdleTrip /\
  IdlePar /\ IdleCal /\ IdleBMS /\ IdleFlt /\ IdleConv /\ IdlePure /\
  IdleCpx /\ IdleWalk /\ IdleLvl /\ IdleGeo /\ IdleRng
SpecEnc1 == E1Init /\ [][NextE1]_vars
TripInit ==
  InitTrip /\ IdleBits /\ IdleIS /\ IdleD1 /\ IdleD2 /\ IdleE2 /\ IdleE1 /\
  IdlePar /\ IdleCal /\ IdleBMS /\ IdleFlt /\ IdleConv /\ IdlePure /\
  IdleCpx /\ IdleWalk /\ IdleLvl /\ IdleGeo /\ IdleRng
SpecTrip == TripInit /\ [][NextTrip]_vars
ParInit ==
  InitPar /\ IdleBits /\ IdleIS /\ IdleD1 /\ IdleD2 /\ IdleE2 /\ IdleE1 /\
  IdleTrip /\ IdleCal /\ IdleBMS /\ IdleFlt /\ IdleConv /\ IdlePure /\
  IdleCpx /\ IdleWalk /\ IdleLvl /\ IdleGeo /\ IdleRng
SpecParam == ParInit /\ [][NextPar]_vars
CalInit ==
  InitCal /\ IdleBits /\ IdleIS /\ IdleD1 /\ IdleD2 /\ IdleE2 /\ IdleE1 /\
  IdleTrip /\ IdlePar /\ IdleBMS /\ IdleFlt /\ IdleConv /\ IdlePure /\
  IdleCpx /\ IdleWalk /\ IdleLvl /\ IdleGeo /\ IdleRng
SpecCal == CalInit /\ [][NextCal]_vars
BMSInit ==
  InitBMS /\ IdleBits /\ IdleIS /\ IdleD1 /\ IdleD2 /\ IdleE2 /\ IdleE1 /\
  IdleTrip /\ IdlePar /\ IdleCal /\ IdleFlt /\ IdleConv /\ IdlePure /\
  IdleCpx /\ IdleWalk /\ IdleLvl /\ IdleGeo /\ IdleRng
SpecBMS == BMSInit /\ [][NextBMS]_vars
FltInit ==
  InitFlt /\ IdleBits /\ IdleIS /\ IdleD1 /\ IdleD2 /\ IdleE2 /\ IdleE1 /\
  IdleTrip /\ IdlePar /\ IdleCal /\ IdleBMS /\ IdleConv /\ IdlePure /\
  IdleCpx /\ IdleWalk /\ IdleLvl /\ IdleGeo /\ IdleRng
SpecIbm == FltInit /\ [][NextFlt]_vars
ConvInit ==
  InitConv /\ IdleBits /\ IdleIS /\ IdleD1 /\ IdleD2 /\ IdleE2 /\ IdleE1 /\
  IdleTrip /\ IdlePar /\ IdleCal /\ IdleBMS /\ IdleFlt /\ IdlePure /\
  IdleCpx /\ IdleWalk /\ IdleLvl /\ IdleGeo /\ IdleRng
SpecConv == ConvInit /\ [][NextConv]_vars
PureInit ==
  InitPure /\ IdleBits /\ IdleIS /\ IdleD1 /\ IdleD2 /\ IdleE2 /\ IdleE1 /\
  IdleTrip /\ IdlePar /\ IdleCal /\ IdleBMS /\ IdleFlt /\ IdleConv /\
  IdleCpx /\ IdleWalk /\ IdleLvl /\ IdleGeo /\ IdleRng
SpecPure == PureInit /\ [][NextPure]_vars
CpxInit ==
  InitCpx /\ IdleBits /\ IdleIS /\ IdleD1 /\ IdleD2 /\ IdleE2 /\ IdleE1 /\
  IdleTrip /\ IdlePar /\ IdleCal /\ IdleBMS /\ IdleFlt /\ IdleConv /\
  IdlePure /\ IdleWalk /\ IdleLvl /\ IdleGeo /\ IdleRng
SpecComplex == CpxInit /\ [][NextCpx]_vars
WalkInit ==
  InitWalk /\ IdleBits /\ IdleIS /\ IdleD1 /\ IdleD2 /\ IdleE2 /\ IdleE1 /\
  IdleTrip /\ IdlePar /\ IdleCal /\ IdleBMS /\ IdleFlt /\ IdleConv /\
  IdlePure /\ IdleCpx /\ IdleLvl /\ IdleGeo /\ IdleRng
SpecWalk == WalkInit /\ [][NextWalk]_vars
LvlInit ==
  InitLvl /\ IdleBits /\ IdleIS /\ IdleD1 /\ IdleD2 /\ IdleE2 /\ IdleE1 /\
  IdleTrip /\ IdlePar /\ IdleCal /\ IdleBMS /\ IdleFlt /\ IdleConv /\
  IdlePure /\ IdleCpx /\ IdleWalk /\ IdleGeo /\ IdleRng
SpecLevel == LvlInit /\ [][NextLvl]_vars
GeoInit ==
  InitGeo /\ IdleBits /\ IdleIS /\ IdleD1 /\ IdleD2 /\ IdleE2 /\ IdleE1 /\
  IdleTrip /\ IdlePar /\ IdleCal /\ IdleBMS /\ IdleFlt /\ IdleConv /\
  IdlePure /\ IdleCpx /\ IdleWalk /\ IdleLvl /\ IdleRng
SpecGeometry == GeoInit /\ [][NextGeo]_vars
RngInit ==
  InitRng /\ IdleBits /\ IdleIS /\ IdleD1 /\ IdleD2 /\ IdleE2 /\ IdleE1 /\
  IdleTrip /\ IdlePar /\ IdleCal /\ IdleBMS /\ IdleFlt /\ IdleConv /\
  IdlePure /\ IdleCpx /\ IdleWalk /\ IdleLvl /\ IdleGeo
SpecRange == RngInit /\ [][NextRng]_vars

\* "GRIB" stands in the file at byte p (counted from 0)
MagicAt(s, p) == p + 4 <= Len(s) /\ IsMagic(SubSeq(s, p + 1, p + 4))
\* the byte offset of the first "GRIB" at or after byte from, or -1
FirstMagic(s, from) ==
  IF \E p \in from..Len(s) : MagicAt(s, p)
    THEN CHOOSE p \in from..Len(s) :
           MagicAt(s, p) /\ \A q \in from..(p - 1) : ~MagicAt(s, q)
    ELSE -1
\* the file holds all the bytes the message at p declares
WholeMessageAt(s, p) ==
  /\ p + ISLen(edition) <= Len(s)
  /\ LET l == TotalLen(edition, SubSeq(s, p + 1, p + ISLen(edition)))
     IN  l >= ISLen(edition) /\ p + l <= Len(s)

\* C3: when a call of unpack_IS has returned, the status is -1 exactly when
\* the file held no "GRIB" from where the call began, it is 1 when a "GRIB"
\* was there but the file ends before the bytes the message declares, and it
\* is 0 only when the whole declared message was read.
ReturnStatusLaw ==
  pc = "done" =>
    LET p == FirstMagic(fp.stream, call_pos)
    IN  /\ (status = -1) <=> (p = -1)
        /\ (p # -1 /\ ~WholeMessageAt(fp.stream, p)) => status = 1
        /\ status = 0 => (p # -1 /\ WholeMessageAt(fp.stream, p)
                          /\ fp.pos = p + is_msg.total_len)

\* C4: when the search has settled on a "GRIB" in temp, the four bytes just
\* read are the first "GRIB" of the file at or after the byte where the call
\* began: no earlier magic was skipped and the bytes matched are contiguous
\* in the file.
ResyncFindsFirstMagic ==
  (pc = "scan" /\ IsMagic(temp)) =>
    /\ MagicAt(fp.stream, fp.pos - 4)
    /\ fp.pos - 4 = FirstMagic(fp.stream, call_pos)

\* the number of present points before point i (counted from 0)
PresentBefore(bitmap, i) ==
  IF bitmap = <<>> THEN i ELSE Cardinality({j \in 1..i : bitmap[j] = 1})
\* R + p*2^E/10^D for the reference word of the message
Unscaled(m, p) ==
  RatAdd(RatDiv(m.ref.value, RatPow(10, m.D)),
         RatDiv(RatMul(<<p, 1>>, RatPow(2, m.E)), RatPow(10, m.D)))

\* C5: after unpack_BDS on a simple-packed message with a recognised grid of
\* nx*ny points, gridpoint i is MISSING when a bitmap is present and its bit
\* i is 0; otherwise it is R when pack_width is 0 and R + packed[k]*2^E/10^D
\* when not, k being the number of present points before i.
BitmapLawAndOrder ==
  d1_pc = "done" =>
    LET m == d1_in
    IN  /\ Len(grib_msg.gridpoints) >= m.nx * m.ny
        /\ \A i \in 0..(m.nx * m.ny - 1) :
             grib_msg.gridpoints[i + 1] =
               IF m.bitmap # <<>> /\ m.bitmap[i + 1] = 0 THEN GRIB_MISSING_VALUE
               ELSE IF m.pack_width = 0 THEN RatDiv(m.ref.value, RatPow(10, m.D))
               ELSE Unscaled(m, m.vals[PresentBefore(m.bitmap, i) + 1])
BitmapLawAndOrderWitness ==
  /\ d1_pc = "done"
  /\ d1_in.bitmap = <<0, 1, 0, 1>>
  /\ d1_in.pack_width = 9
  /\ d1_in.E = -1 /\ d1_in.D = 1
  /\ d1_in.ref.word = 1125192294
  /\ d1_in.vals = <<11, 16>>
  /\ grib_msg.gridpoints =
       <<GRIB_MISSING_VALUE, RatNorm(559411 + 11 * 1024, 20480),
         GRIB_MISSING_VALUE, RatNorm(559411 + 16 * 1024, 20480)>>

\* the scalar metadata a caller reads in grid k (counted from 0)
SeenMd(k) ==
  LET md == grib2_msg.grids[k + 1].md
  IN  [nx |-> md.nx, ny |-> md.ny, templ |-> md.pds_templ_num,
       param_cat |-> md.param_cat, param_num |-> md.param_num,
       num_ranges |-> md.stat_proc.num_ranges,
       pack_width |-> md.pack_width, R |-> md.R, E |-> md.E, D |-> md.D]
\* the scalar metadata of the sections 3, 4 and 5 that precede the section 7
\* of field f
SentMd(f) ==
  [nx |-> f.gds.nx, ny |-> f.gds.ny, templ |-> f.pds.templ,
   param_cat |-> f.pds.param_cat, param_num |-> f.pds.param_num,
   num_ranges |-> Len(f.pds.ranges),
   pack_width |-> f.drs.pack_width,
   R |-> RatDiv(f.drs.ref.value, RatPow(10, f.drs.D)),
   E |-> f.drs.E, D |-> f.drs.D]
\* pointer q of a grid designates a live array of the kind, holding data
PointsTo(q, kind, data) ==
  /\ q \in 1..Len(heap)
  /\ heap[q].live
  /\ heap[q].kind = kind
  /\ Len(heap[q].data) >= Len(data)
  /\ SubSeq(heap[q].data, 1, Len(data)) = data
\* the arrays of grid k are those of field f
ArraysBound(k, f) ==
  LET md == grib2_msg.grids[k + 1].md
  IN  /\ f.pds.ranges # <<>> =>
           PointsTo(md.stat_proc.ranges, "ranges", f.pds.ranges)
      /\ IF f.bms.bitmap = <<>>
           THEN md.bitmap = 0
           ELSE PointsTo(md.bitmap, "bitmap",
                         SubSeq(f.bms.bitmap, 1, f.gds.nx * f.gds.ny))

\* C6: simple unpacking of a grid whose pack_width is 0 gives R at every
\* present point and MISSING at every masked point, whatever else the
\* decoder holds.
ConstantField2 ==
  \A k \in 0..(grid_num - 1) :
    LET f == d2_in[k + 1]
        g == grib2_msg.grids[k + 1].gridpoints
    IN  f.drs.pack_width = 0 =>
          \A i \in 1..(f.gds.nx * f.gds.ny) :
            g[i] = IF f.bms.bitmap # <<>> /\ f.bms.bitmap[i] = 0
                     THEN GRIB_MISSING_VALUE
                     ELSE RatDiv(f.drs.ref.value, RatPow(10, f.drs.D))

\* C7: when unpackgrib2 has returned 0, num_grids is the number of sections
\* 7 of the message, and the metadata of grid k is that of the most recent
\* sections 3, 4, 5 and 6 before the k-th section 7.
MultiGridBinding ==
  d2_pc = "done" =>
    /\ grib2_msg.num_grids = Len(d2_in)
    /\ grid_num = Len(d2_in)
    /\ \A k \in 0..(Len(d2_in) - 1) :
         /\ SeenMd(k) = SentMd(d2_in[k + 1])
         /\ ArraysBound(k, d2_in[k + 1])

RECURSIVE SectionSum(_, _, _)
\* the sum of the lengths in the headers of the n sections from byte pos on
SectionSum(out, pos, n) ==
  IF n = 0 THEN 0
  ELSE LET len == GetBits(out, 0, pos * 8, 32)
       IN  len + SectionSum(out, pos + len, n - 1)

\* C8: in every message grib1to2 writes, the total length of the Indicator
\* Section is 16 + the lengths in the headers of the six sections + 4, and
\* "7777" follows the last byte of the Data Section.
DeclaredLength2 ==
  enc2.pc = "done" =>
    LET out == enc2.ofile
        sum == SectionSum(out, 16, 6)
    IN  /\ GetBits(out, 0, 64, 32) = 0
        /\ GetBits(out, 0, 96, 32) = 16 + sum + 4
        /\ SubSeq(out, 16 + sum + 1, 16 + sum + 4) = <<55, 55, 55, 55>>

\* the rows of the level table: first type, second type, first scale,
\* second scale (255: none given), first value, second value
LevelRow(T, v1, v2) ==
  CASE T = 100 -> <<100, 255, -2, 255, v1, v2>>
    [] T = 101 -> <<100, 100, -3, -3, v1, v2>>
    [] T = 102 -> <<101, 255, 0, 255, v1, v2>>
    [] T = 103 -> <<102, 255, 0, 255, v1, v2>>
    [] T = 104 -> <<102, 102, -2, -2, v1, v2>>
    [] T = 105 -> <<103, 255, 0, 255, v1, v2>>
    [] T = 106 -> <<103, 103, -2, -2, v1, v2>>
    [] T = 107 -> <<104, 255, 4, 255, v1, v2>>
    [] T = 108 -> <<104, 104, 2, 2, v1, v2>>
    [] T = 109 -> <<105, 255, 0, 255, v1, v2>>
    [] T = 110 -> <<105, 105, 0, 0, v1, v2>>
    [] T = 111 -> <<106, 255, 2, 255, v1, v2>>
    [] T = 112 -> <<106, 106, 2, 2, v1, v2>>
    [] T = 113 -> <<107, 255, 0, 255, v1, v2>>
    [] T = 114 -> <<107, 107, 0, 0, 475 - v1, 475 - v2>>
    [] T = 115 -> <<108, 255, -2, 255, v1, v2>>
    [] T = 116 -> <<108, 108, -2, -2, v1, v2>>
    [] T = 117 -> <<109, 255, 9, 255, v1, v2>>
    [] T = 119 -> <<111, 255, 4, 255, v1, v2>>
    [] T = 120 -> <<111, 111, 2, 2, v1, v2>>
    [] T = 121 -> <<100, 100, -2, -2, 1100 - v1, 1100 - v2>>
    [] T = 125 -> <<103, 255, 2, 255, v1, v2>>
    [] T = 128 -> <<104, 104, 3, 3, 1100 - v1, 1100 - v2>>
    [] T = 141 -> <<100, 100, -3, -2, v1, 1100 - v2>>
TableLevels == (100..117) \cup {119, 120, 121, 125, 128, 141}
\* the level fields of the section 4 in the buffer, once pack_PDS has run:
\* the types, the scale factors (sign and 7-bit magnitude) and the values
WrittenLevel ==
  LET b == enc2.grib2_buffer
      o == (21 + GetBits(b, 0, 21 * 8, 32)) * 8
  IN  [type1 |-> GetBits(b, 0, o + 176, 8),
       scale1 |-> SignedField(b, o + 184, 7),
       value1 |-> GetBits(b, 0, o + 192, 32),
       type2 |-> GetBits(b, 0, o + 224, 8),
       scale2 |-> SignedField(b, o + 232, 7),
       value2 |-> GetBits(b, 0, o + 240, 32)]
PDSPacked == enc2.pc \in {"DRS", "BMS", "DS", "write", "done"}

\* C10: for every level type of the level table pack_PDS writes the first
\* and second surface types and the scale factors of the table row (104
\* gives 102, 102, -2, -2; 110 and 114 give a second scale factor 0) and the
\* values by the value rule of the row.
LevelTranslation ==
  (PDSPacked /\ enc2.grib_msg.level_type \in TableLevels) =>
    LET msg == enc2.grib_msg
        row == LevelRow(msg.level_type, msg.lvl1, msg.lvl2)
        w == WrittenLevel
    IN  /\ w.type1 = row[1]
        /\ w.type2 = row[2]
        /\ w.scale1 = row[3]
        /\ w.value1 = row[5]
        /\ row[2] # 255 => (w.scale2 = row[4] /\ w.value2 = row[6])

RECURSIVE SectionSum1(_, _, _)
\* the sum of the 24-bit lengths in the headers of the n sections of a
\* GRIB-1 message from byte pos on
SectionSum1(out, pos, n) ==
  IF n = 0 THEN 0
  ELSE LET len == GetBits(out, 0, pos * 8, 24)
       IN  len + SectionSum1(out, pos + len, n - 1)
\* the number of sections of a written message: the flag of the PDS tells
\* whether there is a BMS
Sections1(w) == IF (w.head[16] \div 64) % 2 = 1 THEN 4 ELSE 3
Written1(w) == Len(w.head) + w.more + Len(w.tail)
Framed1(w) ==
  /\ SubSeq(w.head, 1, 4) = <<G, R, I, B>>
  /\ w.head[8] = 1
  /\ w.tail = <<55, 55, 55, 55>>
  /\ GetBits(w.head, 0, 32, 24) = 8 + SectionSum1(w.head, 8, Sections1(w)) + 4

\* C9: every message grib2to1 writes is "GRIB", a 24-bit length, the
\* edition byte 1, the PDS, the GDS, the BMS if there is one, the BDS and
\* "7777"; the 24-bit length is the number of bytes written for the grid and
\* is 8 + the lengths in the section headers + 4.
Framing1 ==
  \A k \in 1..Len(enc1.ofile) :
    LET w == enc1.ofile[k]
    IN  /\ Framed1(w)
        /\ GetBits(w.head, 0, 32, 24) = Written1(w)

\* the level as pack_PDS wrote it
TripWritten == LevelSwitch(trip.grib1[1], trip.grib1[2], trip.grib1[3])
\* the level types whose row of the level table has a second surface
TwoSurfaceLevels == {T \in TableLevels : LevelRow(T, 0, 0)[2] # 255}

\* C11: for every level type of the level table, pack_PDS followed by
\* mapLevelData on the values as unpack_PDS delivers them gives back the
\* GRIB-1 level type and the level values (no value for mean sea level,
\* 102; the second value where the row has a second surface).
LevelInverse ==
  (trip.pc \in {"mapped", "exit"} /\ trip.grib1[1] \in TableLevels) =>
    /\ trip.pc = "mapped"
    /\ trip.back.level_type = trip.grib1[1]
    /\ trip.grib1[1] # 102 => trip.back.level1 = trip.grib1[2]
    /\ trip.grib1[1] \in TwoSurfaceLevels => trip.back.level2 = trip.grib1[3]

\* a decoded level is the double value/10^scale
IsScaled(l, value, scale) ==
  l.value = value /\ (value = 0 \/ l.factor = scale)
\* C12: unpack_PDS gives the surface types pack_PDS wrote and, for every
\* scale factor pack_PDS wrote (negative ones included), the level
\* value/10^scale: 500 hPa with scale -2 is 50000.
LevelWireRoundTrip ==
  trip.pc \in {"decoded", "mapped", "exit"} =>
    LET w == TripWritten
    IN  /\ trip.md.lvl1_type = w[1]
        /\ trip.md.lvl2_type = w[2]
        /\ IsScaled(trip.md.lvl1, w[5], w[3])
        /\ w[4] # 255 => IsScaled(trip.md.lvl2, w[6], w[4])

(***************************************************************************)
(* C13: the parameter translation is invertible on the mapped subset       *)
(***************************************************************************)
\* the GRIB-1 parameter was mapped to a GRIB-2 triple and mapped back
ParamBack == pmap.pc = "grib1" /\ pmap.parameter # <<255, 255, 255>>
\* C13: for every GRIB-1 (center, table version, code) that
\* map_GRIB1_parameter_into_GRIB2 maps to a triple other than
\* (255, 255, 255), mapParameterData on that triple and center returns
\* the code it started from.
ParameterInverse == ParamBack => pmap.pdata[2] = pmap.param

(***************************************************************************)
(* C14: add_time adds on the Gregorian calendar                            *)
(***************************************************************************)
\* the days from the start of the month to the start of month mo, in a year
\* that is not a leap year
MonthStart == <<0, 31, 59, 90, 120, 151, 181, 212, 243, 273, 304, 334>>
\* the number of the day in the Gregorian calendar
GregorianDay(yr, mo, dy) ==
  365 * yr + (yr - 1) \div 4 - (yr - 1) \div 100 + (yr - 1) \div 400
  + MonthStart[mo] + (IF mo > 2 /\ Leap(yr) THEN 1 ELSE 0) + dy
\* the number of the minute of a date and time
Minute(d) ==
  (GregorianDay(d.yr, d.mo, d.dy) * 24 + d.time \div 100) * 60
  + (d.time % 100)
\* the minutes in a time unit of add_time
UnitMinutes(time_units) ==
  CASE time_units = 0 -> 1 [] time_units = 1 -> 60 [] OTHER -> 1440
\* C14: for every valid start, every amount 0..255 and the units minutes,
\* hours and days, add_time leaves a valid date and time that is exactly
\* the amount later on the Gregorian calendar, whatever the calls made
\* before it have left in the table mdays.
CalendarAddition ==
  cal.pc = "added" =>
    /\ ValidTime(cal.to.yr, cal.to.mo, cal.to.dy, cal.to.time)
    /\ Minute(cal.to) =
         Minute(cal.from) + cal.time_to_add * UnitMinutes(cal.time_units)
\* a call that crosses the end of February of a year that is not a leap
\* year, made with mdays[2] left at 29 by a call before it
CalendarAdditionWitness ==
  /\ cal.pc = "added"
  /\ cal.was[2] = 29
  /\ cal.from = [yr |-> 2100, mo |-> 2, dy |-> 28, time |-> 1200]
  /\ cal.time_to_add = 48 /\ cal.time_units = 1
  /\ cal.to = [yr |-> 2100, mo |-> 3, dy |-> 2, time |-> 1200]

(***************************************************************************)
(* C15: the statistical process Encoder2 selects                           *)
(***************************************************************************)
\* section 4 follows the 21 bytes of section 1 and section 3, whose length
\* is its first field
PDSOffset == (21 + GetBits(enc2.grib2_buffer, 0, 21 * 8, 32)) * 8
\* C15: for t_range 2, 3, 4 Encoder2 writes template 8 with process 1 when
\* t_range is 4, else 2 for parameter 15 and 3 for parameter 16; when
\* neither gives a process the run ends and nothing is written for the
\* message; for a t_range outside {0, 1, 2, 3, 4, 10} the run ends before
\* any byte of the message is output.
ProcessSelection ==
  enc2.pc \notin {"start", "idle"} =>
    LET msg == enc2.grib_msg
        b == enc2.grib2_buffer
    IN  /\ (PDSPacked /\ msg.t_range \in {2, 3, 4}) =>
             /\ GetBits(b, 0, PDSOffset + 56, 16) = 8
             /\ GetBits(b, 0, PDSOffset + 368, 8) =
                  (IF msg.t_range = 4 THEN 1
                   ELSE IF msg.param = 15 THEN 2 ELSE 3)
        /\ (msg.t_range \in {2, 3} /\ msg.param \notin {15, 16}) =>
             /\ ~PDSPacked
             /\ enc2.ofile = <<>>
        /\ msg.t_range \notin {0, 1, 2, 3, 4, 10} =>
             /\ enc2.pc = "exit"
             /\ enc2.ofile = <<>>
\* a maximum temperature over a time range 4 has been written with
\* process 1
ProcessSelectionWitness ==
  /\ enc2.pc = "done"
  /\ enc2.grib_msg.t_range = 4
  /\ enc2.grib_msg.param = 15
  /\ GetBits(enc2.ofile, 0, 16 * 8 + PDSOffset + 368, 8) = 1

(***************************************************************************)
(* C16: the GRIB-1 bit-map section there and back                          *)
(***************************************************************************)
\* C16: for every number of points, the multiples of 8 among them, the
\* section packBMS writes is decoded by unpack_BDS to a bit map of exactly
\* that many bits, (length - 6) * 8 - unused bits, each equal to the bit
\* that was packed.
BitmapRoundTrip ==
  bmap.pc = "decoded" =>
    /\ bmap.bitmap_len = bmap.num_points
    /\ bmap.decoded = bmap.bitmap
\* the same for the numbers of points that are not multiples of 8
BitmapRoundTripPartByte ==
  (bmap.pc = "decoded" /\ bmap.num_points % 8 # 0) =>
    /\ bmap.bitmap_len = bmap.num_points
    /\ bmap.decoded = bmap.bitmap
\* a multiple of 8 points is decoded to 8 bits fewer
BitmapWholeBytes ==
  (bmap.pc = "decoded" /\ bmap.num_points % 8 = 0) =>
    /\ bmap.bitmap_len = bmap.num_points - 8
    /\ bmap.decoded = SubSeq(bmap.bitmap, 1, bmap.num_points - 8)

(***************************************************************************)
(* C17: the pack width Encoder1 chooses                                    *)
(***************************************************************************)
\* main has filled pvals and chosen pack_width for the current grid
WidthChosen == enc1.pc \in {"PDS", "GDS", "BMS", "BDS", "write"}
\* the packed values of the current grid: those kept, and that of the run
PackedValues ==
  LET grid == enc1.grib2_msg.grids[enc1.n + 1]
  IN  {enc1.pvals[m] : m \in 1..Len(enc1.pvals)}
      \cup (IF grid.run.count > 0 THEN {PVal(grid.md, grid.run.value)}
            ELSE {})
\* C17: pack_width is the smallest w >= 0 with 2^w - 1 at or above the
\* largest packed value, and every packed value, that of a point below the
\* reference value too, is non-negative and fits in pack_width bits.
PackWidthMinimal ==
  WidthChosen =>
    /\ \A v \in PackedValues : v >= 0
    /\ enc1.pack_width <= 31
    /\ \A v \in PackedValues : v <= Pow2(enc1.pack_width) - 1
    /\ \/ enc1.pack_width = 0
       \/ \E v \in PackedValues : v > Pow2(enc1.pack_width - 1) - 1
\* the same with 1 as the least width, for a grid with no point below the
\* reference value
PackWidthMinimalFromOne ==
  (WidthChosen /\ \A v \in PackedValues : v >= 0) =>
    /\ enc1.pack_width \in 1..31
    /\ \A v \in PackedValues : v <= Pow2(enc1.pack_width) - 1
    /\ \/ enc1.pack_width = 1
       \/ \E v \in PackedValues : v > Pow2(enc1.pack_width - 1) - 1
\* a grid with a point below the reference value gets a pack width of 64
\* and is never written
PackWidthBelow ==
  (WidthChosen /\ \E v \in PackedValues : v < 0) =>
    /\ enc1.pack_width = 64
    /\ enc1.pc # "write"

(***************************************************************************)
(* C18: an IBM real there and back                                         *)
(***************************************************************************)
\* C18: for the zero word and every IBM real with a normalized fraction,
\* either sign and any exponent 0..127, ieee2ibm of ibm2real gives the
\* four bytes of the word again, big-endian; the fraction written is at
\* most 0xFFFFFF and the exponent in 0..127.
IbmRoundTrip ==
  flt.pc = "ibm" =>
    /\ flt.ibm_rep = flt.x
    /\ flt.real.m = 0 \/
         LET x == flt.real
             up == RealUp(x.m, x.k + 6, 64)
             down == RealDown(x.m, up[1], up[2])
         IN  /\ down[2] \in 0..127
             /\ RealRound(x.m, down[1]) <= full
\* the least exponent with the least normalized fraction has gone there
\* and back
IbmRoundTripWitness ==
  /\ flt.pc = "ibm"
  /\ flt.x = <<0, 16, 0, 0>>
  /\ flt.ibm_rep = <<0, 16, 0, 0>>
\* where both fit, the numbers m * 16^k and the rationals agree on ibm2real
\* and on ieee2ibm
RealAgrees ==
  (flt.pc = "ibm" /\ flt.x[1] % 128 \in {64, 65}) =>
    LET q == ibm2real(flt.x, 0)
        x == flt.real
    IN  /\ q = RatMul(<<IF x.neg THEN -x.m ELSE x.m, 1>>,
                      RatPow(16, x.k))
        /\ ieee2ibm(q) = flt.ibm_rep

(***************************************************************************)
(* C19: data and bitmap from GRIB-1 to GRIB-2 and back through Decoder2    *)
(***************************************************************************)
RECURSIVE SectionAt(_, _, _)
\* the byte where the first section numbered num from byte pos on begins
\* (0: there is none)
SectionAt(b, pos, num) ==
  IF pos + 5 > Len(b) THEN 0
  ELSE IF GetBits(b, 0, pos * 8 + 32, 8) = num THEN pos
  ELSE LET len == GetBits(b, 0, pos * 8, 32)
       IN  IF len <= 0 THEN 0 ELSE SectionAt(b, pos + len, num)
\* the first n fields of width bits of the Data Section of out
Emitted7(out, width, n) ==
  LET o == SectionAt(out, 16, 7) * 8
  IN  [k \in 1..n |-> GetBits(out, 0, o + 40 + (k - 1) * width, width)]
\* the first n bits of the bitmap of the Bit-map Section of out
Emitted6(out, n) ==
  LET o == SectionAt(out, 16, 6) * 8
  IN  [k \in 1..n |-> GetBits(out, 0, o + 48 + (k - 1), 1)]
MissingAt(g) == {i \in 1..Len(g) : g[i] = GRIB_MISSING_VALUE}
\* a message with pack_width > 0 was converted and unpackgrib2 has ended
Converted ==
  /\ conv.pc = "unpacking"
  /\ d2_pc \in {"done", "lost", "exit"}
  /\ grib_msg.pack_width > 0
\* the packed integers and the bitmap of the GRIB-2 message are those of the
\* GRIB-1 message
SameData ==
  LET out == enc2.ofile
  IN  /\ Emitted7(out, grib_msg.pack_width, Len(d1_in.vals)) = d1_in.vals
      /\ IF grib_msg.bms_included = 1
           THEN /\ GetBits(out, 0, SectionAt(out, 16, 6) * 8 + 40, 8) = 0
                /\ Emitted6(out, grib_msg.bitmap_len) = d1_in.bitmap
           ELSE GetBits(out, 0, SectionAt(out, 16, 6) * 8 + 40, 8) = 255
\* unpackgrib2 returned one grid whose MISSING points are those of Decoder1
SameMissing ==
  /\ d2_pc = "done"
  /\ grib2_msg.num_grids = 1
  /\ Len(grib2_msg.grids[1].gridpoints) = Len(grib_msg.gridpoints)
  /\ MissingAt(grib2_msg.grids[1].gridpoints) = MissingAt(grib_msg.gridpoints)

\* C19: for every GRIB-1 message with pack_width > 0 that grib1to2
\* converts, the packed integers of the GRIB-2 Data Section are those read
\* from the GRIB-1 Binary Data Section, the bitmap written is the GRIB-1
\* bitmap, and Decoder2 on the output marks MISSING exactly the points
\* Decoder1 marked.
CrossEditionData == Converted => SameData /\ SameMissing

\* the parts that hold: data and bitmap for every message converted, and the
\* MISSING points for every grid but the polar stereographic one
CrossEditionPacked == Converted => SameData
CrossEditionMissing ==
  Converted /\ grib_msg.data_rep # 5 => SameMissing

(***************************************************************************)
(* C20: what unpackgrib1 leaves in the GRIBMessage for a message, behind   *)
(* different messages                                                      *)
(***************************************************************************)
\* the fields of the claim, the arrays up to their lengths
MessageFields(msg) ==
  [ed_num |-> msg.ed_num, table_ver |-> msg.table_ver, D |-> msg.D,
   data_rep |-> msg.data_rep, nx |-> msg.nx, ny |-> msg.ny,
   navg |-> msg.navg, pds_ext |-> SubSeq(msg.pds_ext, 1, msg.pds_ext_len),
   bitmap_len |-> msg.bitmap_len,
   bitmap |-> SubSeq(msg.bitmap, 1, msg.bitmap_len),
   gridpoints |-> SubSeq(msg.gridpoints, 1, msg.nx * msg.ny)]

\* C20: the fields unpackgrib1 produces for a message are the same in two
\* streams that hold the same bytes for it, whatever message was decoded
\* before it into the same GRIBMessage, for messages of edition 0 and
\* messages without a Grid Description Section or Bit Map Section too.
PureDecoder1 ==
  pure.pc = "next" => MessageFields(pure.one) = MessageFields(pure.two)

\* the parts that hold: every field for an edition 1 message with a Grid
\* Description Section; every field but data_rep without one; for edition 0
\* the fields but table_ver, D and data_rep
PureWithGDS ==
  pure.pc = "next" /\ pure.one.ed_num = 1 /\ pure.one.gds_included = 1 =>
    MessageFields(pure.one) = MessageFields(pure.two)
PureButDataRep ==
  pure.pc = "next" /\ pure.one.ed_num = 1 /\ pure.one.gds_included = 0 =>
    [MessageFields(pure.one) EXCEPT !.data_rep = 0]
      = [MessageFields(pure.two) EXCEPT !.data_rep = 0]
PureEdition0 ==
  pure.pc = "next" /\ pure.one.ed_num = 0 =>
    [MessageFields(pure.one) EXCEPT !.data_rep = 0, !.table_ver = 0, !.D = 0]
      = [MessageFields(pure.two) EXCEPT !.data_rep = 0, !.table_ver = 0,
                                        !.D = 0]

(***************************************************************************)
(* C21: the capacities of the buffers a GRIBMessage and a GRIB2Message     *)
(* keep from one call to the next                                          *)
(***************************************************************************)
Returned == pure.pc \in {"first", "next"}
\* no capacity of run one is below what it was before the call, and it has
\* changed only to the size the call required
CapacityKept ==
  /\ pure.one.buffer_capacity >= pure.was.buffer_capacity
  /\ pure.one.bcapacity >= pure.was.bcapacity
  /\ pure.one.gcapacity >= pure.was.gcapacity
  /\ pure.one.buffer_capacity # pure.was.buffer_capacity =>
       pure.one.buffer_capacity = ReadIS(pure.was, File1Bytes(pure.in), 0).total_len + 4
  /\ pure.one.bcapacity # pure.was.bcapacity =>
       pure.one.bcapacity = pure.one.bitmap_len
  /\ pure.one.gcapacity # pure.was.gcapacity =>
       pure.one.gcapacity = pure.one.nx * pure.one.ny
CapacityHolds(msg) ==
  /\ msg.bitmap_len <= msg.bcapacity
  /\ msg.nx * msg.ny <= msg.gcapacity
  /\ Len(msg.bitmap) = msg.bcapacity
  /\ Len(msg.gridpoints) = msg.gcapacity
  /\ Len(msg.buffer) = msg.buffer_capacity

\* C21: after every call of unpackgrib1 on one GRIBMessage no capacity is
\* smaller than before the call, a buffer is reallocated only when the size
\* required exceeds its capacity, and buffer_capacity >= total_len + 4,
\* bitmap_len <= bcapacity and nx*ny <= gcapacity.
CapacityTracked ==
  Returned =>
    /\ CapacityKept
    /\ CapacityHolds(pure.one) /\ CapacityHolds(pure.two)
    /\ pure.one.buffer_capacity >= pure.one.total_len + 4
    /\ pure.two.buffer_capacity >= pure.two.total_len + 4

\* the parts that hold: the capacities never shrink and bound the bitmap and
\* the grid; the buffer holds total_len + 4 bytes for every message of
\* edition 1; Decoder2 on one message leaves room for the message, its
\* grids and the points of each grid
CapacityMonotone ==
  Returned => CapacityKept /\ CapacityHolds(pure.one) /\ CapacityHolds(pure.two)
CapacityEdition1 ==
  Returned /\ pure.one.ed_num = 1 =>
    /\ pure.one.buffer_capacity >= pure.one.total_len + 4
    /\ pure.two.buffer_capacity >= pure.two.total_len + 4
CapacityDecoder2 ==
  d2_pc = "done" =>
    /\ grib2_msg.buffer_capacity >= grib2_msg.total_len + 4
    /\ grib2_msg.num_grids <= grib2_msg.grid_capacity
    /\ \A n \in 1..grib2_msg.num_grids :
         /\ grib2_msg.grids[n].md.nx * grib2_msg.grids[n].md.ny
              <= grib2_msg.grids[n].gcapacity
         /\ Len(grib2_msg.grids[n].gridpoints) = grib2_msg.grids[n].gcapacity

(***************************************************************************)
(* C22: the flag of the Binary Data Section                                *)
(***************************************************************************)
\* bit 0x40 of octet 4 of the Binary Data Section of the message
Octet4Bit40(m) == (m.flag \div 4) % 2 = 1

\* C22: a GRIB-1 message whose Binary Data Section has bit 0x40 of octet 4
\* set is never decoded as a simple-packed grid: unpackgrib1 does not return
\* from it, whatever the other bits of the flag are.
SecondOrderRejected ==
  Returned /\ pure.in.ed = 1 => ~Octet4Bit40(pure.in)

\* what holds: bds_flag is the four bits of the message and is below 0x40,
\* and unpack_BDS never exits
FlagFourBits ==
  Returned /\ pure.in.ed = 1 =>
    pure.one.bds_flag = pure.in.flag /\ ~SecondOrder(pure.one.bds_flag)
NeverSecondOrder == pure.pc # "exit"

(***************************************************************************)
(* C23: the number in the average of unpack_PDS                            *)
(***************************************************************************)
\* C23: after unpack_PDS navg is the 16-bit value of octets 22-23 when the
\* time range indicator is one of 3, 4, 51, 113, 114, 115, 116, 117, 123,
\* 124 and 0 for every other time range indicator, whatever P2 is.
NumberInAverage ==
  pure.pc = "GDS" =>
    /\ pure.one.t_range = pure.in.t_range
    /\ pure.one.navg = IF pure.in.t_range \in AveragedP2 THEN pure.in.navg
                       ELSE 0

\* what holds: the same with P2 in the place of the time range indicator
NumberInAverageByP2 ==
  pure.pc = "GDS" =>
    /\ pure.one.t_range = pure.in.t_range /\ pure.one.p2 = pure.in.p2
    /\ pure.one.navg = IF pure.in.p2 \in AveragedP2 THEN pure.in.navg ELSE 0

(***************************************************************************)
(* C24: the values unpack_DS reconstructs from spatial differences         *)
(***************************************************************************)
\* the points the groups of message x hold, in order: the stored value
\* <<s>>, s = pval + ref + omin, or MISSING for a value that stands for a
\* missing one
RECURSIVE Stored(_, _)
Stored(x, n) ==
  IF n > Len(x.raws) THEN <<>>
  ELSE [m \in 1..DeclaredLengths(x)[n] |->
          LET w == x.widths[n]
              pval == IF w > 0 THEN x.vals[n][m] ELSE 0
          IN  IF x.mgmt > 0 /\ (IF w > 0 THEN pval = Pow2(w) - 1
                                ELSE x.refs[n] = Pow2(x.pack_width) - 1)
                THEN GRIB_MISSING_VALUE
                ELSE <<pval + x.refs[n] + x.omin>>]
       \o Stored(x, n + 1)
\* point i of the grid of x: MISSING behind the groups and where the bitmap
\* has a 0
PointOf(x, st, i) ==
  IF i > Len(st) \/ (x.bitmap # <<>> /\ x.bitmap[i] = 0)
    THEN GRIB_MISSING_VALUE ELSE st[i]
\* the gridpoints by the recurrence: Xs holds the values of the non-missing
\* points before point i
RECURSIVE Recurrence(_, _, _, _, _)
Recurrence(x, st, i, Xs, acc) ==
  IF i > x.npts THEN acc
  ELSE IF PointOf(x, st, i) = GRIB_MISSING_VALUE
    THEN Recurrence(x, st, i + 1, Xs, Append(acc, GRIB_MISSING_VALUE))
  ELSE
    LET j == Len(Xs)
        Xj == IF j < x.order THEN x.first[j + 1]
              ELSE IF x.order = 1 THEN Xs[j] + PointOf(x, st, i)[1]
              ELSE 2 * Xs[j] - Xs[j - 1] + PointOf(x, st, i)[1]
        ref == RatDiv(Float(x.R), RatPow(10, x.D))
    IN  Recurrence(x, st, i + 1, Append(Xs, Xj),
                   Append(acc, RatAdd(ref, RatDiv(RatMul(<<Xj, 1>>, RatPow(2, x.E)),
                                                RatPow(10, x.D)))))

\* C24: with first values f and stored values s_j = pval_j + ref_j + omin,
\* the value X at the j-th non-missing point is f[j] for j < order,
\* X_{j-1} + s_j for order 1 and 2*X_{j-1} - X_{j-2} + s_j for order 2; the
\* gridpoint is R + X_j * 2^E / 10^D; missing points do not advance j.
SpatialDifferencing ==
  cpx.pc = "done" =>
    cpx.gridpoints = Recurrence(cpx.in, Stored(cpx.in, 1), 1, <<>>, <<>>)
\* order 2, a missing point among five, four values reconstructed
SpatialDifferencingWitness ==
  /\ cpx.pc = "done"
  /\ cpx.in.order = 2 /\ cpx.in.omin = -2 /\ cpx.in.E = -1
  /\ cpx.in.bitmap = <<1, 0, 1, 1, 1>>
  /\ Cardinality(MissingAt(cpx.gridpoints)) = 1
  /\ cpx.gridpoints[5] # cpx.gridpoints[4]

(***************************************************************************)
(* C25: the group lengths of unpack_DS and the entries it writes           *)
(***************************************************************************)
RECURSIVE SumOf(_)
SumOf(q) == IF q = <<>> THEN 0 ELSE Head(q) + SumOf(Tail(q))
Unpacked3Ended == cpx.pc \in {"done", "overrun"}
\* the lengths unpack_DS computes are those of the claim
LengthsRead ==
  ReadGroups(cpx.buffer, 49 * 8 + 40, cpx.md).lengths = DeclaredLengths(cpx.in)

\* C25: L[k] = length.ref + raw[k] * length.incr for k < num_groups - 1 and
\* L[num_groups - 1] = length.last; every gridpoint behind the sum of the
\* L[k] is MISSING; the number of gridpoints written never exceeds nx * ny,
\* whatever group lengths the message declares.
GroupLengths ==
  Unpacked3Ended =>
    /\ LengthsRead
    /\ \A i \in 1..(cpx.md.nx * cpx.md.ny) :
         i > SumOf(DeclaredLengths(cpx.in)) =>
           cpx.gridpoints[i] = GRIB_MISSING_VALUE
    /\ cpx.written <= cpx.md.nx * cpx.md.ny
    /\ Len(cpx.gridpoints) = cpx.md.nx * cpx.md.ny

\* the parts that hold: the lengths; the MISSING points and the size of the
\* grid when the lengths add up to nx * ny at most; and a write behind the
\* end of gridpoints exactly when they add up to more
GroupLengthsRead == Unpacked3Ended => LengthsRead
GroupsInside ==
  cpx.pc = "done" =>
    /\ SumOf(DeclaredLengths(cpx.in)) <= cpx.md.nx * cpx.md.ny
    /\ cpx.written = SumOf(DeclaredLengths(cpx.in))
    /\ Len(cpx.gridpoints) = cpx.md.nx * cpx.md.ny
    /\ \A i \in 1..(cpx.md.nx * cpx.md.ny) :
         i > SumOf(DeclaredLengths(cpx.in)) =>
           cpx.gridpoints[i] = GRIB_MISSING_VALUE
GroupsBehind ==
  cpx.pc = "overrun" =>
    /\ SumOf(DeclaredLengths(cpx.in)) > cpx.md.nx * cpx.md.ny
    /\ cpx.written = cpx.md.nx * cpx.md.ny + 1

\* C26: the walks of unpackgrib2 over the sections under the scheduling of a
\* sequential program, which takes its next step whenever it has one
SpecWalkFair == WalkInit /\ [][NextWalk]_vars /\ WF_walkVars(NextWalk)
\* the call has returned or the process has ended
WalkFinished == walk.pc \in {"done", "fault"}
\* the sections of the message read so far chain from section 1 to "7777"
\* inside the message
WalkChained ==
  /\ walk.pc \notin {"idle", "start"}
  /\ Chained(WalkBytes(walk.in), 128)
RECURSIVE WalkGrids(_, _)
WalkGrids(secs, n) ==
  IF n > Len(secs) THEN 0
  ELSE (IF secs[n].num = 7 THEN 1 ELSE 0) + WalkGrids(secs, n + 1)
\* C26: for every message, whatever its section length fields are and with
\* or without "7777", both section walks of unpackgrib2 come to an end.
WalksTerminate == <>WalkFinished
\* C26, second part: no walk tests for "7777" or reads a section header at
\* an offset at or beyond total_len.
WalkNeverBeyond == ~walk.beyond
\* C26 for messages whose sections chain to "7777": no read at or beyond
\* total_len, and both walks count the sections numbered 7.
WalkChainedInside ==
  WalkChained =>
    /\ ~walk.beyond
    /\ walk.pc # "fault"
    /\ walk.pc = "done" =>
         /\ walk.num_grids = WalkGrids(walk.in.secs, 1)
         /\ walk.grid_num = walk.num_grids
\* C26 for messages whose sections chain to "7777": the walks come to an end
WalkChainedTerminates ==
  <>(WalkFinished
     \/ (walk.pc \notin {"idle", "start"}
         /\ ~Chained(WalkBytes(walk.in), 128)))

\* the first-surface types mapLevelData has a case for; 200 only for center 7
LevelRules == (1..9) \cup {20, 117, 160} \cup (100..109) \cup {111}
\* the first-surface type of grid i as unpack_PDS reads it
LvlType(i) == GetBits(levels.secs[i], 0, 176, 8)
LvlUnmapped(i) ==
  /\ LvlType(i) \notin LevelRules
  /\ ~(LvlType(i) = 200 /\ levels.center = 7)
\* C27: for a first-surface type without a rule in mapLevelData (10, 110,
\* 200 from a center other than 7) the level type octet packPDS writes is
\* the GRIB-2 type itself, unless the conversion has failed.
UnmappedLevel ==
  \A i \in 1..Len(levels.octets) : LvlUnmapped(i) => levels.octets[i] = LvlType(i)
\* C27 as the code has it: for a type without a rule the octet is what
\* level_type held before the call, the value of an earlier grid included
UnmappedLevelHeld ==
  \A i \in 1..Len(levels.octets) : LvlUnmapped(i) => levels.octets[i] = levels.held[i]
\* C27 for the types with a rule: the octet does not depend on what
\* level_type held
MappedLevelWritten ==
  \A i \in 1..Len(levels.octets) :
    ~LvlUnmapped(i) =>
      LET md == UnpackLevels(levels.secs[i], 0)
      IN  levels.octets[i] = mapLevelData(md.lvl1_type, md.lvl1, md.lvl2_type,
                                       md.lvl2, levels.center, -1).level_type

\* the four bytes of the forecast time in the section 4 of the message
\* written: behind section 0, section 1 and section 3, at octets 19-22
ForecastTimeWritten ==
  LET at == 16 + 21 + GDSLength(enc2.grib_msg.data_rep) + 18
  IN  SubSeq(enc2.ofile, at + 1, at + 4)
\* C28: the GRIB-2 message written depends on the GRIB-1 message alone; for
\* the time ranges 2, 3 and 4 the forecast time of template 8 is P1 and not
\* what the output buffer held.
ForecastTimeFromP1 ==
  (enc2.pc = "done" /\ enc2.grib_msg.t_range \in {2, 3, 4}) =>
    ForecastTimeWritten = Bytes(enc2.grib_msg.p1, 4)
\* C28 as the code has it: for the time ranges 2, 3 and 4 the four bytes are
\* those the buffer held before pack_PDS
ForecastTimeLeftOver ==
  (enc2.pc = "done" /\ enc2.grib_msg.t_range \in {2, 3, 4}) =>
    \E fill \in E2Fill : ForecastTimeWritten = <<fill, fill, fill, fill>>
\* C28 for the time ranges 0, 1 and 10: the forecast time is P1, or 0 for
\* the time range 1
ForecastTimeSet ==
  (enc2.pc = "done" /\ enc2.grib_msg.t_range \in {0, 1, 10}) =>
    ForecastTimeWritten
      = Bytes(IF enc2.grib_msg.t_range = 1 THEN 0 ELSE enc2.grib_msg.p1, 4)

\* the sign and the 31 bits of a corner in the section 3 written
WrittenCorner(off) ==
  <<GetBits(geo.grib2_buffer, 0, off, 1), GetBits(geo.grib2_buffer, 0, off + 1, 31)>>
\* the sign and 1000 times the millidegrees of a corner of the GRIB-1 grid
MilliCorner(v) == <<IF v < 0 THEN 1 ELSE 0, 1000 * Abs(v)>>
\* pack_GDS has written the section 3 of a grid on data_rep 0 or 4
GeoPacked == geo.pc \in {"GDS2", "done"} /\ geo.in.data_rep \in {0, 4}
\* the section 3 carries nx, ny and the four corners in microdegrees
GeoCornersWritten ==
  /\ GetBits(geo.grib2_buffer, 0, 240, 32) = geo.in.nx
  /\ GetBits(geo.grib2_buffer, 0, 272, 32) = geo.in.ny
  /\ WrittenCorner(368) = MilliCorner(geo.in.slat)
  /\ WrittenCorner(400) = MilliCorner(geo.in.slon)
  /\ WrittenCorner(440) = MilliCorner(geo.in.elat)
  /\ WrittenCorner(472) = MilliCorner(geo.in.elon)
\* unpack_GDS of unpackgrib2.c has the corners unpack_GDS of unpackgrib1.c had
GeoCornersRecovered ==
  /\ geo.md.nx = geo.grib_msg.nx /\ geo.md.ny = geo.grib_msg.ny
  /\ geo.md.slat = geo.grib_msg.slat /\ geo.md.slon = geo.grib_msg.slon
  /\ geo.md.elat = geo.grib_msg.elat /\ geo.md.elon = geo.grib_msg.elon
\* C29: for data_rep 0 and 4 the section 3 written by pack_GDS carries nx,
\* ny, the corners as sign and microdegrees, the i-direction increment
\* 1000 * loinc and for a Gaussian grid the number of parallels, and
\* unpack_GDS of unpackgrib2.c recovers nx, ny, the corners and loinc.
GridGeometry ==
  /\ GeoPacked =>
       /\ GeoCornersWritten
       /\ GetBits(geo.grib2_buffer, 0, 504, 32) = 1000 * geo.in.loinc
       /\ geo.in.data_rep = 4 =>
            GetBits(geo.grib2_buffer, 0, 536, 32) = geo.in.lainc
  /\ (GeoPacked /\ geo.pc = "done") =>
       GeoCornersRecovered /\ geo.md.loinc = geo.grib_msg.loinc
\* C29 for latitude/longitude grids (data_rep 0): all of it holds
GridGeometryLatLon ==
  (GeoPacked /\ geo.in.data_rep = 0) =>
    /\ GeoCornersWritten
    /\ GetBits(geo.grib2_buffer, 0, 504, 32) = 1000 * geo.in.loinc
    /\ geo.pc = "done" =>
         GeoCornersRecovered /\ geo.md.loinc = geo.grib_msg.loinc
\* C29 for Gaussian grids (data_rep 4) as the code has it: nx, ny, the
\* corners and the number of parallels are preserved, the i-direction
\* increment is 1000000 times the number of parallels
GridGeometryGaussian ==
  (GeoPacked /\ geo.in.data_rep = 4) =>
    /\ GeoCornersWritten
    /\ GetBits(geo.grib2_buffer, 0, 536, 32) = geo.in.lainc
    /\ GetBits(geo.grib2_buffer, 0, 504, 32) = 1000000 * geo.in.lainc
    /\ geo.pc = "done" =>
         GeoCornersRecovered /\ geo.md.loinc = <<geo.in.lainc, 1>>

\* the end time pack_PDS wrote for the message
RngEnd ==
  add_time(rng.in.p2, rng.in.fcst_units, rng.in.yr, rng.in.mo, rng.in.dy,
           rng.in.time)
\* the end time lies in the unit above the forecast unit where the
\* reference time lies: the same hour for minutes, the same day for hours,
\* the same month for days
RngSameFrame ==
  /\ RngEnd[1] = rng.in.yr /\ RngEnd[2] = rng.in.mo
  /\ rng.in.fcst_units < 2 => RngEnd[3] = rng.in.dy
  /\ rng.in.fcst_units = 0 => RngEnd[4] \div 100 = rng.in.time \div 100
\* C30: a GRIB-1 message with time range 2, 3 or 4, forecast unit minute,
\* hour or day and P2 in 0..255 that grib1to2 converts comes back from
\* mapTimeRange with its time range and its P2, also when the end time is
\* on a later day, month or year.
TimeRangeRoundTrip ==
  rng.pc \in {"mapped", "exit"} =>
    /\ rng.pc = "mapped"
    /\ rng.back.t_range = rng.in.t_range
    /\ rng.back.p2 = rng.in.p2
\* C30 as the code has it: P2 comes back when the end time is in the same
\* hour (minutes), day (hours) or month (days) as the reference time
TimeRangeSameFrame ==
  (rng.pc \in {"mapped", "exit"} /\ RngSameFrame) =>
    rng.pc = "mapped" /\ rng.back.p2 = rng.in.p2
\* C30 as the code has it: what comes back is the difference of the minute,
\* hour or day fields of the end time and the reference time
TimeRangeFieldDifference ==
  rng.pc \in {"mapped", "exit"} =>
    /\ rng.pc = "mapped"
    /\ rng.back.p2
         = CASE rng.in.fcst_units = 0 -> (RngEnd[4] % 100) - (rng.in.time % 100)
             [] rng.in.fcst_units = 1 ->
                  RngEnd[4] \div 100 - rng.in.time \div 100
             [] OTHER -> RngEnd[3] - rng.in.dy
\* C30 as the code has it: the time range 4 comes back, the time ranges 2
\* and 3 come back as 2 (for the parameters 15 and 16, the only ones
\* grib1to2 converts them for)
TimeRangeBack ==
  rng.pc \in {"mapped", "exit"} =>
    rng.back.t_range = IF rng.in.t_range = 4 THEN 4 ELSE 2

====
